---- MODULE Spec2Model ----
(***************************************************************************)
(* Model of the parallel transfer engine of azure-data-lake-store-python:  *)
(* StateManager and ADLTransferClient (adlfs/transfer.py), driven by one   *)
(* caller thread and a ThreadPoolExecutor that runs the chunk and merge    *)
(* tasks.                                                                  *)
(*                                                                         *)
(* A chunk name is <<"dst">> (the destination path itself) or              *)
(* <<"tmp", offset>> (the temporary path dst.name + '_' + str(offset));    *)
(* the directory part of a temporary name does not take part in any        *)
(* decision of the code and is left out.  A file is identified by its      *)
(* position in the insertion-ordered dict _files.  A future is identified  *)
(* by the position of its work item in the executor's FIFO queue.          *)
(*                                                                         *)
(* Further sections model the checkpoint file that several clients share, *)
(* DatalakeRESTInterface.call (azure/datalake/store/lib.py),               *)
(* ExponentialRetryPolicy (azure/datalake/store/retry.py), AzureDLFile and *)
(* the directory cache of AzureDLFileSystem (azure/datalake/store/core.py) *)
(* and the recursive ACL walker (azure/datalake/store/multiprocessor.py);  *)
(* each has its own variables and its own specification.                   *)
(***************************************************************************)
EXTENDS Integers, Sequences, FiniteSets, TLC

\* ---------------------------------------------------------------- bounds
\* files submitted, bytes submitted over all files, largest chunk size,
\* largest pool (a client has chunks of one byte or of the largest size,
\* and one worker or the largest pool); Timeout stands for any positive
\* timeout given to monitor
MaxFiles == 2
MaxBytes == 2
MaxChunkSize == 2
MaxThreads == 2
Timeout == 1
\* calls of save() by one client
MaxSaves == 2
\* tokens the credential holds in one run: the first and its refreshes
MaxTokens == 2
\* calls made with one policy object
MaxCalls == 2
\* largest max_retries, exponential_retry_interval and exponential_factor
\* given to a policy that is not the default one
MaxRetries == 2
MaxInterval == 2
MaxFactor == 2
\* bytes handed to write() in one run, largest blocksize of a file object,
\* requests that fail for a reason outside the program
MaxData == 3
MaxBlock == 2
MaxFaults == 1
\* largest length of a remote file that is read
MaxSize == 3
\* files of the remote store that another client rewrites
MaxChanges == 1
\* calls of mv and rm that change the remote store
MaxMoves == 1
\* objects given to a StateManager that is used on its own
MaxObjects == 3
\* paths below the path given to a recursive ACL call, sub-processes of
\* the call
MaxNodes == 2
MaxProcesses == 2
\* paths in one list on the walker's queue: the program takes 10, and so
\* small a tree fills a list only if lists are as small
queue_bucket_size == 2

\* program constant: self._chunkretries
chunkretries == 5

\* program constants: the defaults of ExponentialRetryPolicy
DefaultMaxRetries == 4
DefaultInterval == 1
DefaultFactor == 4

\* program constants: retries and backoff of _put_data_with_retry and
\* _fetch_range_with_retry; their delay of 0.01 s is the unit of time here
WithRetryRetries == 10
WithRetryDelay == 1
WithRetryBackoff == 3

FileStates == {"pending", "transferring", "merging", "finished", "cancelled", "errored"}
ChunkStates == {"running", "finished", "cancelled", "errored"}

\* States of a concurrent.futures.Future.  A finished future is split by
\* what the callable did: "ok" returned after doing all of its work,
\* "early" returned normally after seeing the shutdown event, "reterr"
\* returned normally with a captured failure as the error component of
\* (bytes, error), "raised" let an exception escape.
FutureDone == {"ok", "early", "reterr", "raised", "cancelled"}
FutureStates == {"queued", "running"} \cup FutureDone

VARIABLES
    chunksize,       \* self._chunksize
    tmp_path,        \* self._tmp_path is set (TRUE) or None (FALSE)
    merge,           \* self._merge is set (TRUE) or None (FALSE)
    nthreads,        \* self._nthreads
    persist_path,    \* self._persist_path is set (TRUE) or None (FALSE)
    files,           \* self._files, in insertion order
    fstates,         \* self._fstates, a StateManager over file keys
    futures,         \* the executor's work items, in submission order
    pool,            \* self._pool: "open", "shutdown" or "none"
    shutdown_event,  \* self._shutdown_event.is_set()
    saved,           \* this client's entry in the checkpoint file
    pc,              \* where the caller thread is
    caller,          \* who called shutdown(): "user" or "monitor"
    timeout,         \* the timeout argument of the running monitor()
    elapsed,         \* time.time() - start > timeout
    cursor,          \* position of _cancel() in the tracked futures
    disk,            \* the checkpoint file shared by several clients
    savers,          \* the clients in save(), by name
    rest,            \* a DatalakeRESTInterface and the token it was given
    threads,         \* the threads inside call(), with their threading.local
    policy,          \* an ExponentialRetryPolicy object
    retry,           \* the retry loop of the calls made with that policy
    adl,             \* the remote file, as the service holds it
    handle,          \* an AzureDLFile opened with mode 'wb' or 'ab'
    reader,          \* an AzureDLFile opened with mode 'rb'
    dirs,            \* AzureDLFileSystem.dirs: the listing cached for each key
    acl              \* one call of multi_processor_change_acl

\* the transfer client
client_vars == <<chunksize, tmp_path, merge, nthreads, persist_path, files,
                 fstates, futures, pool, shutdown_event, saved, pc, caller,
                 timeout, elapsed, cursor>>

\* the checkpoint file and the clients that share it
ckpt_vars == <<disk, savers>>

\* the REST interface
call_vars == <<rest, threads>>

\* the retry policy and the loop that consults it
retry_vars == <<policy, retry>>

\* the file system, its file objects and the remote file
fs_vars == <<adl, handle, reader, dirs>>

\* the recursive ACL walker
acl_vars == <<acl>>

vars == <<client_vars, ckpt_vars, call_vars, retry_vars, fs_vars, acl_vars>>

\* what the transfer client never touches
others == <<ckpt_vars, call_vars, retry_vars, fs_vars, acl_vars>>

\* what save() never touches
not_ckpt == <<client_vars, call_vars, retry_vars, fs_vars, acl_vars>>

\* what one call() without retries never touches
not_call == <<client_vars, ckpt_vars, retry_vars, fs_vars, acl_vars>>

\* what the retry loop never touches
not_retry == <<client_vars, ckpt_vars, call_vars, fs_vars, acl_vars>>

\* what the file system and its file objects never touch
not_fs == <<client_vars, ckpt_vars, call_vars, retry_vars, acl_vars>>

\* what the recursive ACL walker never touches
not_acl == <<client_vars, ckpt_vars, call_vars, retry_vars, fs_vars>>

config == <<chunksize, tmp_path, merge, nthreads, persist_path>>

\* two clients with different names that persist to the same file
ClientNames == {"down", "up"}

\* two threads that share one DatalakeRESTInterface
Callers == {"t1", "t2"}

\* ExponentialRetryPolicy.__init__: the arguments, each replaced by its
\* default when it is None
ExponentialRetryPolicy(max_retries, exponential_retry_interval, exponential_factor) ==
    [max_retries |-> max_retries,
     exponential_retry_interval |-> exponential_retry_interval,
     exponential_factor |-> exponential_factor]

\* ExponentialRetryPolicy(): every argument is None
DefaultPolicyFiveRetries ==
    ExponentialRetryPolicy(DefaultMaxRetries + 1, DefaultInterval, DefaultFactor)
DefaultPolicy ==
    ExponentialRetryPolicy(DefaultMaxRetries, DefaultInterval, DefaultFactor)

\* no piece is on its way to the service
NoRequest == [op |-> "", data |-> <<>>, offset |-> -1, syncFlag |-> ""]

\* the paths that the file system is asked about, each the characters of
\* its posix string: the directories a and ax, the files a/c and ax/d; the
\* last of them is not in the remote store at the start
Paths == {<<"a">>, <<"a", "/", "c">>, <<"a", "x">>, <<"a", "x", "/", "d">>}
InitialTree == {<<"a">>, <<"a", "/", "c">>, <<"a", "x">>}

\* a path whose last name is c or d is a file, any other a directory
IsFile(path) == path # <<>> /\ path[Len(path)] \in {"c", "d"}

\* no operation of the file system has been called yet
NoOperation ==
    [op |-> "", path |-> <<>>, destination |-> <<>>, recursive |-> FALSE,
     bypass |-> FALSE, before |-> {}, raised |-> "", status |-> -1,
     found |-> FALSE, names |-> {}]

\* no file object has been opened for writing yet
NoHandle ==
    [pc |-> "none", mode |-> "", blocksize |-> 0, delimiter |-> FALSE,
     loc |-> 0, buffer |-> <<>>, first_write |-> TRUE, closed |-> FALSE,
     op |-> "", syncFlag |-> "", force |-> FALSE, data |-> <<>>,
     branch |-> "", request |-> NoRequest, retry_count |-> 0, raised |-> "",
     accepted |-> <<>>, initial |-> <<>>, appending |-> FALSE, acked |-> 0, creates |-> 0,
     appends |-> 0]

\* no file object has been opened for reading yet
NoReader ==
    [pc |-> "none", file |-> <<>>, size |-> 0, blocksize |-> 0, loc |-> 0,
     start |-> 0, end |-> 0, cache |-> <<>>, raised |-> "", op |-> "",
     out |-> <<>>, stale |-> FALSE]

\* multi_processor_change_acl has not been called yet
NoWalk ==
    [pc |-> "idle", tree |-> <<>>, method_name |-> "", process_list |-> <<>>,
     file_path_queue |-> <<>>, unfinished_tasks |-> 0,
     finish_queue_processing_flag |-> FALSE, exception_queue |-> <<>>,
     exception |-> "", monitor |-> "none", dir_processed_counter |-> 0,
     submitted |-> {}, listed |-> {}, applied |-> {}, faults |-> 0]

\* a thread outside call(): no operation, no signed session at hand, no
\* session in its threading.local, no request on the wire, no outcome
AtRest == [pc |-> "idle", op |-> "", cur |-> 0, session |-> FALSE, sent |-> 0,
           result |-> "none"]

\* ---------------------------------------------------------- StateManager
StateManager(states) ==
    [states |-> [s \in states |-> {}], objects |-> <<>>]

\* a __setitem__ that forgets to discard the object from its old state
SetItemNoDiscard(m, obj, state) ==
    [states  |-> [m.states EXCEPT ![state] = @ \cup {obj}],
     objects |-> (obj :> state) @@ m.objects]

SetItem(m, obj, state) ==
    LET discarded == IF obj \in DOMAIN m.objects
                     THEN [m.states EXCEPT ![m.objects[obj]] = @ \ {obj}]
                     ELSE m.states
    IN  [states  |-> [discarded EXCEPT ![state] = @ \cup {obj}],
         objects |-> (obj :> state) @@ m.objects]

GetItem(m, obj) == m.objects[obj]

\* a contains_all that holds of an empty state manager
contains_all_or_empty(m, state) ==
    Cardinality(DOMAIN m.objects) - Cardinality(m.states[state]) = 0

contains_all(m, state) ==
    /\ Cardinality(m.states[state]) > 0
    /\ Cardinality(DOMAIN m.objects) - Cardinality(m.states[state]) = 0

contains_none(m, states) ==
    \A s \in states : Cardinality(m.states[s]) = 0

\* ------------------------------------------------------------- helpers
NoFuture == 0

\* list(range(0, nbytes, chunksize))
Offsets(nbytes, csize) ==
    [k \in 1..((nbytes + csize - 1) \div csize) |-> (k - 1) * csize]

DstName == <<"dst">>
TmpName(offset) == <<"tmp", offset>>

\* position of a key in an insertion-ordered dict kept as a sequence
KeyIndex(chunks, name) ==
    IF \E k \in 1..Len(chunks) : chunks[k].name = name
    THEN CHOOSE k \in 1..Len(chunks) : chunks[k].name = name
    ELSE 0

\* dic['chunks'][name] = value
DictSet(chunks, value) ==
    LET k == KeyIndex(chunks, value.name)
    IN  IF k = 0 THEN Append(chunks, value) ELSE [chunks EXCEPT ![k] = value]

\* a work item handed to ThreadPoolExecutor.submit
Work(fn, file, name, offset, size, parts) ==
    [fn |-> fn, file |-> file, name |-> name, offset |-> offset,
     size |-> size, parts |-> parts, state |-> "queued"]

\* the names of a chunks dict, in order: list(dic['chunks'])
RECURSIVE Names(_)
Names(chunks) ==
    IF chunks = <<>> THEN <<>>
    ELSE <<Head(chunks).name>> \o Names(Tail(chunks))

\* the state of the client that the caller thread's methods rewrite
Client == [files |-> files, fstates |-> fstates, futures |-> futures,
           raised |-> FALSE]

\* ------------------------------------------------------------ _scatter
\* a _scatter that takes the temporary name whenever a temporary path is
\* set, a lone chunk included
ChunkNameAlwaysTmp(offsets, offset) ==
    IF tmp_path THEN TmpName(offset) ELSE DstName

\* the name _scatter gives the chunk at an offset
ChunkName(offsets, offset) ==
    IF tmp_path /\ Len(offsets) > 1 THEN TmpName(offset) ELSE DstName

\* the size argument _scatter hands to the transfer callable
ChunkSize(nbytes, offset) == chunksize

\* the loop `for offset in offsets` of _scatter, from position k on
RECURSIVE ScatterFrom(_, _, _, _)
ScatterFrom(k, offsets, i, st) ==
    IF k > Len(offsets) THEN st
    ELSE
      LET offset == offsets[k]
          name   == ChunkName(offsets, offset)
          future == Len(st.futures) + 1
          dic    == [st.files[i] EXCEPT
                       !.cstates = SetItem(@, name, "running"),
                       !.chunks  = DictSet(@, [name    |-> name,
                                               future  |-> future,
                                               retries |-> chunkretries,
                                               offset  |-> offset])]
      IN  ScatterFrom(k + 1, offsets, i,
            [st EXCEPT !.files[i] = dic,
                       !.futures  = Append(@, Work("transfer", i, name, offset,
                                                   ChunkSize(st.files[i].nbytes, offset),
                                                   <<>>))])

scatter(i, st) ==
    ScatterFrom(1, Offsets(st.files[i].nbytes, chunksize), i,
                [st EXCEPT !.fstates = SetItem(@, i, "transferring")])

\* ------------------------------------------------------------- _update
\* an _update that does not look at future.exception()
ChunkOutcomeNoException(state) ==
    IF state = "cancelled" THEN "cancelled" ELSE "finished"

\* the chunk state _update derives from a future that is done
ChunkOutcome(state) ==
    IF state = "cancelled" THEN "cancelled"
    ELSE IF state = "raised" THEN "errored"
    ELSE "finished"

\* an _update that sends a file whose merge failed back to its transfers
MergeOutcomeTransfersAgain(state) ==
    IF state = "cancelled" THEN "cancelled"
    ELSE IF state = "raised" THEN "transferring"
    ELSE "finished"

\* an _update that takes every merge that is done for a merge that worked
MergeOutcomeAlwaysFinished(state) == "finished"

\* the file state _update derives from a merge future that is done
MergeOutcome(state) ==
    IF state = "cancelled" THEN "cancelled"
    ELSE IF state = "raised" THEN "errored"
    ELSE "finished"

\* `if self._merge and len(chunks) > 1`
ShouldMerge(chunks) == merge /\ Len(chunks) > 1

\* the loop `for name in list(dic['chunks'])` of _update, from position k on
RECURSIVE Classify(_, _, _, _)
Classify(k, chunks, cstates, futs) ==
    IF k > Len(chunks) THEN cstates
    ELSE
      LET name  == chunks[k].name
          state == futs[chunks[k].future].state
          next  == IF state \notin FutureDone THEN cstates
                   ELSE SetItem(cstates, name, ChunkOutcome(state))
      IN  Classify(k + 1, chunks, next, futs)

\* the body of the loop over self._files in _update, for the file at i
UpdateFile(i, st) ==
    LET dic == st.files[i]
    IN  IF GetItem(st.fstates, i) = "transferring" THEN
          LET cstates == Classify(1, dic.chunks, dic.cstates, st.futures)
              st1     == [st EXCEPT !.files[i].cstates = cstates]
          IN  IF contains_all(cstates, "finished") THEN
                IF ShouldMerge(dic.chunks) THEN
                  LET st2 == [st1 EXCEPT !.fstates = SetItem(@, i, "merging")]
                  IN  IF pool = "shutdown"
                      THEN [st2 EXCEPT !.raised = TRUE]
                      ELSE [st2 EXCEPT
                              !.files[i].merge = Len(st.futures) + 1,
                              !.futures = Append(@, Work("merge", i, DstName, 0, 0,
                                                         Names(dic.chunks)))]
                ELSE [st1 EXCEPT !.files[i].stop = TRUE,
                                 !.fstates = SetItem(@, i, "finished")]
              ELSE IF contains_none(cstates, {"running"}) THEN
                [st1 EXCEPT !.fstates = SetItem(@, i, "errored")]
              ELSE st1
        ELSE IF GetItem(st.fstates, i) = "merging" THEN
          LET state == st.futures[dic.merge].state
          IN  IF state \notin FutureDone THEN st
              ELSE IF MergeOutcome(state) = "finished" THEN
                [st EXCEPT !.files[i].stop = TRUE,
                           !.fstates = SetItem(@, i, "finished")]
              ELSE [st EXCEPT !.fstates = SetItem(@, i, MergeOutcome(state))]
        ELSE st

\* the loop over self._files in _update; an exception leaves the loop
RECURSIVE UpdateFrom(_, _)
UpdateFrom(i, st) ==
    IF i > Len(st.files) \/ st.raised THEN st
    ELSE UpdateFrom(i + 1, UpdateFile(i, st))

\* -------------------------------------------------------------- _clear
clear(fs) ==
    [i \in 1..Len(fs) |->
       [fs[i] EXCEPT !.merge  = NoFuture,
                     !.chunks = [k \in 1..Len(@) |-> [@[k] EXCEPT !.future = NoFuture]]]]

\* ---------------------------------------------------------------- save
\* what pickling keeps of the client (__getstate__): _files without the
\* futures and _fstates; _transfer, _merge, _pool and _shutdown_event are
\* dropped
Snapshot(st) ==
    [files |-> clear(st.files), fstates |-> st.fstates]

save(st) ==
    IF persist_path
    THEN IF ~contains_all(st.fstates, "finished") THEN <<Snapshot(st)>> ELSE <<>>
    ELSE saved

update(st) == UpdateFrom(1, st)

\* ------------------------------------------------------------- _cancel
\* the futures _cancel visits, in the order it visits them
RECURSIVE Futures(_)
Futures(chunks) ==
    IF chunks = <<>> THEN <<>>
    ELSE <<Head(chunks).future>> \o Futures(Tail(chunks))

RECURSIVE Tracked(_)
Tracked(fs) ==
    IF fs = <<>> THEN <<>>
    ELSE Futures(Head(fs).chunks)
         \o (IF Head(fs).merge # NoFuture THEN <<Head(fs).merge>> ELSE <<>>)
         \o Tracked(Tail(fs))

\* Future.cancel(): only a future that has not started is cancelled
cancel(state) == IF state = "queued" THEN "cancelled" ELSE state

\* ================================================================ actions
NewFile(nbytes) ==
    [nbytes |-> nbytes, start |-> FALSE, stop |-> FALSE, chunks |-> <<>>,
     cstates |-> StateManager(ChunkStates), merge |-> NoFuture]

Init ==
    /\ chunksize \in {1, MaxChunkSize}
    /\ tmp_path \in BOOLEAN
    /\ merge \in BOOLEAN
    /\ nthreads \in {1, MaxThreads}
    /\ persist_path \in BOOLEAN
    /\ files = <<>>
    /\ fstates = StateManager(FileStates)
    /\ futures = <<>>
    /\ pool = "open"
    /\ shutdown_event = FALSE
    /\ saved = <<>>
    /\ pc = "idle"
    /\ caller = "user"
    /\ timeout = 0
    /\ elapsed = FALSE
    /\ cursor = 0
    /\ disk = [ok |-> TRUE, names |-> {}]
    /\ savers = [c \in ClientNames |->
                   [pc |-> "idle", all_downloads |-> {}, unfinished |-> FALSE,
                    saves |-> 0]]
    /\ rest = [head |-> 1, token |-> 1, stale |-> FALSE]
    /\ threads = [t \in Callers |-> AtRest]
    /\ policy = DefaultPolicy
    /\ retry = [pc |-> "idle", default |-> TRUE, base |-> DefaultInterval,
                calls |-> 0, retry_count |-> 0, last_exception |-> FALSE,
                response |-> 0, granted |-> FALSE, slept |-> 0,
                result |-> "none"]
    /\ adl = [exists |-> FALSE, content |-> <<>>, faults |-> 0, issued |-> 0,
              tree |-> InitialTree, changed |-> {}, moves |-> 0,
              last |-> NoOperation]
    /\ handle = NoHandle
    /\ reader = NoReader
    /\ dirs = <<>>
    /\ acl = NoWalk

\* the bytes submitted so far
RECURSIVE TotalBytes(_)
TotalBytes(fs) ==
    IF fs = <<>> THEN 0 ELSE Head(fs).nbytes + TotalBytes(Tail(fs))

\* submit(src, dst, nbytes) with a key not submitted before
submit(nbytes) ==
    /\ pc \in {"idle", "ran"}
    /\ Len(files) < MaxFiles
    /\ TotalBytes(files) + nbytes <= MaxBytes
    /\ fstates' = SetItem(fstates, Len(files) + 1, "pending")
    /\ files' = Append(files, NewFile(nbytes))
    /\ UNCHANGED <<others, config, futures, pool, shutdown_event, saved, pc, caller,
                   timeout, elapsed, cursor>>

\* the loop `for src, dst in self._files` of run, from the file at i on
RECURSIVE RunFrom(_, _)
RunFrom(i, st) ==
    IF i > Len(st.files) THEN st
    ELSE RunFrom(i + 1,
           scatter(i, [st EXCEPT !.files[i].start = TRUE,
                                 !.fstates = SetItem(@, i, "transferring")]))

\* run(monitor=mon): with monitor=True the caller goes on into monitor()
run(mon) ==
    /\ pc = "idle"
    /\ LET st == RunFrom(1, Client)
       IN  /\ files' = st.files
           /\ fstates' = st.fstates
           /\ futures' = st.futures
    /\ pc' = IF mon THEN "wait" ELSE "ran"
    /\ timeout' = 0
    /\ elapsed' = FALSE
    /\ UNCHANGED <<others, config, pool, shutdown_event, saved, caller, cursor>>

\* monitor(poll, timeout=t) called after run(monitor=False); t = 0 is
\* the default, no timeout
monitor(t) ==
    /\ pc = "ran"
    /\ pc' = "wait"
    /\ timeout' = t
    /\ elapsed' = FALSE
    /\ UNCHANGED <<others, config, files, fstates, futures, pool, shutdown_event,
                   saved, caller, cursor>>

\* the clock passes start + timeout while monitor waits
Tick ==
    /\ pc = "wait"
    /\ timeout > 0
    /\ ~elapsed
    /\ elapsed' = TRUE
    /\ UNCHANGED <<others, config, files, fstates, futures, pool, shutdown_event,
                   saved, pc, caller, timeout, cursor>>

\* a _wait that does not wait for a merge
WaitingNoMerge == ~contains_none(fstates, {"pending", "transferring"})

\* the condition of the loop of _wait
Waiting == ~contains_none(fstates, {"pending", "transferring", "merging"})
TimedOut == timeout > 0 /\ elapsed

\* one turn of the loop of _wait: time.sleep(poll); self._update()
wait ==
    /\ pc = "wait"
    /\ Waiting
    /\ ~TimedOut
    /\ LET st == update(Client)
       IN  /\ files' = st.files
           /\ fstates' = st.fstates
           /\ futures' = st.futures
           /\ saved' = save(st)
    /\ UNCHANGED <<others, config, pool, shutdown_event, pc, caller, timeout, elapsed,
                   cursor>>

\* _wait leaves its loop; monitor goes on with _clear() and save()
monitor_return ==
    /\ pc = "wait"
    /\ ~Waiting \/ TimedOut
    /\ files' = clear(files)
    /\ pool' = "none"
    /\ saved' = save(Client)
    /\ pc' = "done"
    /\ UNCHANGED <<others, config, fstates, futures, shutdown_event, caller, timeout,
                   elapsed, cursor>>

\* KeyboardInterrupt in the sleep of _wait: monitor calls shutdown(),
\* which starts with self._shutdown_event.set()
KeyboardInterrupt ==
    /\ pc = "wait"
    /\ Waiting
    /\ ~TimedOut
    /\ shutdown_event' = TRUE
    /\ pc' = "cancel"
    /\ caller' = "monitor"
    /\ cursor' = 1
    /\ UNCHANGED <<others, config, files, fstates, futures, pool, saved, timeout,
                   elapsed>>

\* shutdown() called after run(monitor=False): self._shutdown_event.set()
shutdown ==
    /\ pc = "ran"
    /\ shutdown_event' = TRUE
    /\ pc' = "cancel"
    /\ caller' = "user"
    /\ cursor' = 1
    /\ UNCHANGED <<others, config, files, fstates, futures, pool, saved, timeout,
                   elapsed>>

\* _cancel(): one future.cancel() of its loops
cancel_future ==
    /\ pc = "cancel"
    /\ cursor <= Len(Tracked(files))
    /\ futures' = [futures EXCEPT ![Tracked(files)[cursor]].state = cancel(@)]
    /\ cursor' = cursor + 1
    /\ UNCHANGED <<others, config, files, fstates, pool, shutdown_event, saved, pc,
                   caller, timeout, elapsed>>

\* _cancel() is through; self._pool.shutdown(wait=True) starts to join
pool_shutdown ==
    /\ pc = "cancel"
    /\ cursor > Len(Tracked(files))
    /\ pool' = "shutdown"
    /\ pc' = "join"
    /\ UNCHANGED <<others, config, files, fstates, futures, shutdown_event, saved,
                   caller, timeout, elapsed, cursor>>

\* self._pool.shutdown(wait=False): nothing to wait for
JoinedNoWait == TRUE

\* every work item of the pool has come to an end
Joined == \A t \in 1..Len(futures) : futures[t].state \in FutureDone

\* the join returns and shutdown() ends with self._update(); when called
\* by monitor, monitor goes on with _clear() and save()
shutdown_return ==
    /\ pc = "join"
    /\ Joined
    /\ LET st == update(Client)
       IN  /\ fstates' = st.fstates
           /\ futures' = st.futures
           /\ IF st.raised
              THEN /\ pc' = "raised"
                   /\ files' = st.files
                   /\ saved' = saved
                   /\ pool' = pool
              ELSE IF caller = "monitor"
              THEN /\ pc' = "done"
                   /\ files' = clear(st.files)
                   /\ saved' = save(st)
                   /\ pool' = "none"
              ELSE /\ pc' = "shut"
                   /\ files' = st.files
                   /\ saved' = save(st)
                   /\ pool' = pool
    /\ UNCHANGED <<others, config, shutdown_event, caller, timeout, elapsed, cursor>>

\* load(persist_path)[name].run() in a new process.  Unpickling
\* sets the attributes __getstate__ kept, so the client has no _transfer:
\* with a file to run, run() marks the first file and then raises
\* AttributeError where it reads self._transfer for _scatter; with no
\* file, it has nothing to scatter and monitor() returns at once.
resume ==
    /\ pc \in {"done", "shut", "raised"}
    /\ saved # <<>>
    /\ futures' = <<>>
    /\ pool' = "none"
    /\ shutdown_event' = FALSE
    /\ IF saved[1].files = <<>>
       THEN /\ files' = saved[1].files
            /\ fstates' = saved[1].fstates
            /\ pc' = "done"
       ELSE /\ files' = [saved[1].files EXCEPT ![1].start = TRUE]
            /\ fstates' = SetItem(saved[1].fstates, 1, "transferring")
            /\ pc' = "AttributeError"
    /\ caller' = "user"
    /\ timeout' = 0
    /\ elapsed' = FALSE
    /\ cursor' = 0
    /\ UNCHANGED <<others, config, saved>>

\* -------------------------------------------------- ThreadPoolExecutor
Running == {t \in 1..Len(futures) : futures[t].state = "running"}
Queued == {t \in 1..Len(futures) : futures[t].state = "queued"}

\* a free worker takes the oldest work item that was not cancelled
start_work(t) ==
    /\ t \in Queued
    /\ \A u \in Queued : t <= u
    /\ Cardinality(Running) < nthreads
    /\ futures' = [futures EXCEPT ![t].state = "running"]
    /\ UNCHANGED <<others, config, files, fstates, pool, shutdown_event, saved, pc,
                   caller, timeout, elapsed, cursor>>

\* what a callable can do, given what it can see of the shutdown event
Outcomes(fn) ==
    IF fn = "transfer"
    THEN {"ok", "reterr", "raised"} \cup (IF shutdown_event THEN {"early"} ELSE {})
    ELSE {"ok", "reterr", "raised"}

\* the callable of a running work item ends
finish_work(t, outcome) ==
    /\ t \in Running
    /\ outcome \in Outcomes(futures[t].fn)
    /\ futures' = [futures EXCEPT ![t].state = outcome]
    /\ UNCHANGED <<others, config, files, fstates, pool, shutdown_event, saved, pc,
                   caller, timeout, elapsed, cursor>>

Next ==
    \/ \E nbytes \in 0..MaxBytes : submit(nbytes)
    \/ \E mon \in BOOLEAN : run(mon)
    \/ \E t \in {0, Timeout} : monitor(t)
    \/ Tick
    \/ wait
    \/ monitor_return
    \/ KeyboardInterrupt
    \/ shutdown
    \/ cancel_future
    \/ pool_shutdown
    \/ shutdown_return
    \/ resume
    \/ \E t \in 1..Len(futures) : start_work(t)
    \/ \E t \in 1..Len(futures) : \E outcome \in FutureDone : finish_work(t, outcome)

Spec == Init /\ [][Next]_vars

\* ------------------------------------------------------------ fairness
\* _update would change something: with pc = "wait", Waiting and ~TimedOut
\* this is ENABLED <<wait>>_vars
PollChanges ==
    LET st == update(Client)
    IN  <<st.files, st.fstates, st.futures, save(st)>>
          # <<files, fstates, futures, saved>>

WaitEnabled == pc = "wait" /\ Waiting /\ ~TimedOut /\ PollChanges

\* the caller's program when nobody interrupts it: no KeyboardInterrupt
\* and no shutdown()
LiveNext ==
    \/ \E nbytes \in 0..MaxBytes : submit(nbytes)
    \/ \E mon \in BOOLEAN : run(mon)
    \/ \E t \in {0, Timeout} : monitor(t)
    \/ Tick
    \/ wait
    \/ monitor_return
    \/ \E t \in 1..Len(futures) : start_work(t)
    \/ \E t \in 1..Len(futures) : \E outcome \in FutureDone : finish_work(t, outcome)

\* The loop of _wait keeps polling (weak fairness of wait, written out
\* with its enabling condition), monitor returns once its loop is left,
\* the pool's workers take queued work and every transfer or merge
\* callable comes to an end.
LiveSpec ==
    /\ Init /\ [][LiveNext]_vars
    /\ ([]<>(~WaitEnabled) \/ []<><<wait>>_vars)
    /\ WF_vars(monitor_return)
    /\ WF_vars(\E t \in 1..Len(futures) : start_work(t))
    /\ WF_vars(\E t \in 1..Len(futures) : \E outcome \in FutureDone : finish_work(t, outcome))

\* ============================================== a shared checkpoint file
\* load(filename): the pickled dict, {} whenever unpickling fails (a file
\* that is missing, empty or partly written)
load(file) == IF file.ok THEN file.names ELSE {}

\* save(), lines 412-416: all_downloads = self.load(self._persist_path),
\* then this client's entry is set if some file is not finished and
\* popped otherwise
save_load(c, unfinished) ==
    /\ savers[c].pc = "idle"
    /\ savers[c].saves < MaxSaves
    /\ savers' = [savers EXCEPT
                    ![c] = [pc |-> "loaded",
                            all_downloads |-> IF unfinished
                                              THEN load(disk) \cup {c}
                                              ELSE load(disk) \ {c},
                            unfinished |-> unfinished,
                            saves |-> @.saves + 1]]
    /\ UNCHANGED <<not_ckpt, disk>>

\* save(), line 417: open(self._persist_path, 'wb') truncates the file
save_open(c) ==
    /\ savers[c].pc = "loaded"
    /\ disk' = [ok |-> FALSE, names |-> {}]
    /\ savers' = [savers EXCEPT ![c].pc = "open"]
    /\ UNCHANGED not_ckpt

\* save(), line 418: pickle.dump(all_downloads, f) and the file is closed
save_dump(c) ==
    /\ savers[c].pc = "open"
    /\ disk' = [ok |-> TRUE, names |-> savers[c].all_downloads]
    /\ savers' = [savers EXCEPT ![c].pc = "idle"]
    /\ UNCHANGED not_ckpt

SaveNext ==
    \/ \E c \in ClientNames : \E unfinished \in BOOLEAN : save_load(c, unfinished)
    \/ \E c \in ClientNames : save_open(c)
    \/ \E c \in ClientNames : save_dump(c)

\* one transfer client, at rest, of those that share the file
ClientAtRest ==
    /\ chunksize = 1 /\ nthreads = 1
    /\ ~tmp_path /\ ~merge /\ persist_path

\* the state after construction, the transfer client being the one above
AtRestInit == Init /\ ClientAtRest

SaveSpec == AtRestInit /\ [][SaveNext]_vars

\* ==================================================== the REST interface
\* DatalakeRESTInterface.call (azure/datalake/store/lib.py), entered by the
\* threads of Callers on one shared interface.  A token is identified by
\* its generation: 1 is the token the interface was constructed with, and
\* every refresh yields the next one; an Authorization header is
\* identified by the generation of the token it was formatted from.

\* DatalakeRESTInterface.ends, (required fields, allowed fields): an
\* operation without parameters, one with an optional parameter, one whose
\* only parameter is required, and one with a required and an optional one
ends ==
    [MKDIRS    |-> [required |-> {}, allowed |-> {}],
     DELETE    |-> [required |-> {}, allowed |-> {"recursive"}],
     RENAME    |-> [required |-> {"destination"}, allowed |-> {"destination"}],
     SETEXPIRY |-> [required |-> {"expiryOption"},
                    allowed |-> {"expiryOption", "expireTime"}]]

\* the operations a caller may name, and the keyword arguments it may give
Ops == DOMAIN ends \cup {"NONEXISTENT"}
Params == {"recursive", "destination", "expiryOption", "expireTime",
           "api-version", "many"}

\* allowed.add('api-version')
allowed(op) == ends[op].allowed \cup {"api-version"}

\* the two tests of call() on keys = set(kwargs): required > keys (Python's
\* proper-superset test on sets) and keys - allowed > set()
Rejects(op, keys) ==
    \/ (keys \subseteq ends[op].required /\ keys # ends[op].required)
    \/ keys \ allowed(op) # {}

\* status codes of a response: some of each class, and every code that the
\* code or the retry policy names
Statuses == {104, 200, 201, 307, 400, 401, 403, 404, 408, 429, 500, 501, 503, 505}

\* a response body: json is _is_json_response (the content-type starts
\* with application/json); exception is out['RemoteException']['exception'],
\* "" when the body has no RemoteException; boolean is
\* out.get('boolean', True)
Bodies ==
    [json : BOOLEAN,
     exception : {"", "BadOffsetException", "AccessControlException"},
     boolean : BOOLEAN]

\* what call() does with the response r, lines 385-410
StatusErrorNoBadOffset(status, body) ==
    IF status = 403 THEN "PermissionError"
    ELSE IF status = 404 THEN "FileNotFoundError"
    ELSE IF status >= 400 THEN "DatalakeRESTException"
    ELSE IF body.json /\ ~body.boolean THEN "DatalakeRESTException"
    ELSE "returned"
StatusError(status, body) ==
    IF status = 403 THEN "PermissionError"
    ELSE IF status = 404 THEN "FileNotFoundError"
    ELSE IF status >= 400
    THEN IF body.json /\ body.exception = "BadOffsetException"
         THEN "DatalakeBadOffsetException"
         ELSE "DatalakeRESTException"
    ELSE IF body.json /\ ~body.boolean THEN "DatalakeRESTException"
    ELSE "returned"

\* call(op, ...), lines 346-347: an unknown op raises ValueError at once
call(t, op) ==
    /\ threads[t].pc = "idle"
    /\ threads' = [threads EXCEPT
                     ![t] = IF op \in DOMAIN ends
                            THEN [@ EXCEPT !.pc = "check_token", !.op = op,
                                           !.result = "none"]
                            ELSE [@ EXCEPT !.result = "ValueError"]]
    /\ UNCHANGED <<not_call, rest>>

\* time passes until time.time() - token['time'] > token['expiresIn'] - 100
expire ==
    /\ ~rest.stale
    /\ rest.token < MaxTokens
    /\ rest' = [rest EXCEPT !.stale = TRUE]
    /\ UNCHANGED <<not_call, threads>>

\* DataLakeCredential.signed_session(), first statement of _check_token: a
\* stale token is refreshed, and the session returned carries the header
\* of the token as it is now
signed_session(t) ==
    /\ threads[t].pc = "check_token"
    /\ rest' = IF rest.stale
               THEN [rest EXCEPT !.token = @ + 1, !.stale = FALSE]
               ELSE rest
    /\ threads' = [threads EXCEPT ![t].pc = "compare", ![t].cur = rest'.token]
    /\ UNCHANGED not_call

\* _check_token(), lines 276-278: a head that differs from the header just
\* signed is replaced, and this thread's session is dropped
check_token(t) ==
    /\ threads[t].pc = "compare"
    /\ IF rest.head # threads[t].cur
       THEN /\ rest' = [rest EXCEPT !.head = threads[t].cur]
            /\ threads' = [threads EXCEPT ![t].pc = "validate", ![t].cur = 0,
                                          ![t].session = FALSE]
       ELSE /\ rest' = rest
            /\ threads' = [threads EXCEPT ![t].pc = "validate", ![t].cur = 0]
    /\ UNCHANGED not_call

\* call(), lines 349-365: the keyword arguments are tested against the
\* table, and self.session builds this thread's session if it has none
validate(t, keys) ==
    /\ threads[t].pc = "validate"
    /\ threads' = [threads EXCEPT
                     ![t] = IF Rejects(@.op, keys)
                            THEN [@ EXCEPT !.pc = "idle", !.op = "",
                                           !.result = "ValueError"]
                            ELSE [@ EXCEPT !.pc = "send", !.op = "",
                                           !.session = TRUE]]
    /\ UNCHANGED <<not_call, rest>>

\* call(), lines 371-376: headers = self.head.copy() and the request goes
\* out on this thread's session
send(t) ==
    /\ threads[t].pc = "send"
    /\ threads' = [threads EXCEPT ![t].pc = "respond", ![t].sent = rest.head]
    /\ UNCHANGED <<not_call, rest>>

\* call(), lines 377-378: the request raises a RequestException
transport_error(t) ==
    /\ threads[t].pc = "respond"
    /\ threads' = [threads EXCEPT ![t].pc = "idle", ![t].sent = 0,
                                  ![t].result = "DatalakeRESTException"]
    /\ UNCHANGED <<not_call, rest>>

\* call(), lines 380-410: the response arrives and is returned or raised
respond(t, status, body) ==
    /\ threads[t].pc = "respond"
    /\ threads' = [threads EXCEPT ![t].pc = "idle", ![t].sent = 0,
                                  ![t].result = StatusError(status, body)]
    /\ UNCHANGED <<not_call, rest>>

CallNext ==
    \/ \E t \in Callers : \E op \in Ops : call(t, op)
    \/ expire
    \/ \E t \in Callers : signed_session(t)
    \/ \E t \in Callers : check_token(t)
    \/ \E t \in Callers : \E keys \in SUBSET Params : validate(t, keys)
    \/ \E t \in Callers : send(t)
    \/ \E t \in Callers : transport_error(t)
    \/ \E t \in Callers : \E status \in Statuses : \E body \in Bodies :
          respond(t, status, body)

CallSpec == AtRestInit /\ [][CallNext]_vars

\* ======================================================= the retry policy
\* ExponentialRetryPolicy (azure/datalake/store/retry.py) and the loop of a
\* REST call that consults it: the endpoint is called, the policy is asked
\* whether to retry, and the loop goes round again or ends with the last
\* response or exception.  response is the status code of the response, 0
\* when there is none; last_exception tells whether the attempt raised.

\* should_retry(self, response, last_exception, retry_count), the value it
\* returns
should_retry_no_408(p, response, last_exception, retry_count) ==
    IF retry_count >= p.max_retries THEN FALSE
    ELSE IF last_exception THEN TRUE
    ELSE IF \/ response = 501
            \/ response = 505
            \/ (300 <= response /\ response < 500
                /\ response # 401 /\ response # 429)
    THEN FALSE
    ELSE IF \/ response >= 500
            \/ response = 401
            \/ response = 429
            \/ response = 104
    THEN TRUE
    ELSE FALSE
should_retry(p, response, last_exception, retry_count) ==
    IF retry_count >= p.max_retries THEN FALSE
    ELSE IF last_exception THEN TRUE
    ELSE IF \/ response = 501
            \/ response = 505
            \/ (300 <= response /\ response < 500
                /\ response # 401 /\ response # 408 /\ response # 429)
    THEN FALSE
    ELSE IF \/ response >= 500
            \/ response = 401
            \/ response = 408
            \/ response = 429
            \/ response = 104
    THEN TRUE
    ELSE FALSE

\* __backoff(self), after its time.sleep(self.exponential_retry_interval)
backoff(p) ==
    [p EXCEPT !.exponential_retry_interval = @ * p.exponential_factor]

\* a body without JSON, as of the mocked endpoint of the tests
PlainBody == [json |-> FALSE, exception |-> "", boolean |-> TRUE]

\* no call is under way
LoopAtRest(default, base) ==
    [pc |-> "idle", default |-> default, base |-> base, calls |-> 0,
     retry_count |-> 0, last_exception |-> FALSE, response |-> 0,
     granted |-> FALSE, slept |-> 0, result |-> "none"]

\* _fetch_range_with_retry and _put_data_with_retry: a policy of its own
\* for the call that follows
new_policy(retries, delay, factor) ==
    /\ retry.pc = "idle"
    /\ policy' = ExponentialRetryPolicy(retries, delay, factor)
    /\ retry' = LoopAtRest(FALSE, delay)
    /\ UNCHANGED not_retry

\* rest.call(..., retry_policy=retry_policy): the loop starts with
\* retry_count 0; the policy is the one at hand, used before or not
begin_call ==
    /\ retry.pc = "idle"
    /\ retry.calls < MaxCalls
    /\ retry' = [LoopAtRest(retry.default, retry.base) EXCEPT
                   !.pc = "attempt", !.calls = retry.calls + 1]
    /\ UNCHANGED <<not_retry, policy>>

\* the endpoint is called: it raises or it answers with a status
attempt(last_exception, response) ==
    /\ retry.pc = "attempt"
    /\ retry' = [retry EXCEPT !.pc = "decide",
                              !.last_exception = last_exception,
                              !.response = response]
    /\ UNCHANGED <<not_retry, policy>>

\* retry_policy.should_retry(response, last_exception, retry_count): when
\* it grants the retry it has slept and has multiplied the interval
decide ==
    /\ retry.pc = "decide"
    /\ LET granted == should_retry(policy, retry.response,
                                   retry.last_exception, retry.retry_count)
       IN /\ retry' = [retry EXCEPT
                         !.pc = "loop", !.granted = granted,
                         !.slept = IF granted
                                   THEN policy.exponential_retry_interval
                                   ELSE 0]
          /\ policy' = IF granted THEN backoff(policy) ELSE policy
    /\ UNCHANGED not_retry

\* the loop goes round again, or the call ends: the last exception is
\* wrapped in a DatalakeRESTException, the last response is mapped by its
\* status
loop ==
    /\ retry.pc = "loop"
    /\ retry' = IF retry.granted
                THEN [retry EXCEPT !.pc = "attempt",
                                   !.retry_count = @ + 1]
                ELSE [retry EXCEPT
                        !.pc = "idle",
                        !.result = IF retry.last_exception
                                   THEN "DatalakeRESTException"
                                   ELSE StatusError(retry.response, PlainBody)]
    /\ UNCHANGED <<not_retry, policy>>

RetryNext ==
    \/ \E retries \in 0..MaxRetries : \E delay \in 1..MaxInterval :
         \E factor \in 1..MaxFactor : new_policy(retries, delay, factor)
    \/ begin_call
    \/ attempt(TRUE, 0)
    \/ \E response \in Statuses : attempt(FALSE, response)
    \/ decide
    \/ loop

RetrySpec == AtRestInit /\ [][RetryNext]_vars

\* the endpoint answers or raises in the end, and the thread of the call
\* keeps running
RetryLiveSpec ==
    /\ RetrySpec
    /\ WF_vars(attempt(TRUE, 0) \/ \E response \in Statuses : attempt(FALSE, response))
    /\ WF_vars(decide)
    /\ WF_vars(loop)

\* ====================================================== the write path
\* AzureDLFile in mode 'wb' or 'ab' (azure/datalake/store/core.py): write,
\* flush and close, the pieces they send through _put_data_with_retry, and
\* the remote file.  A path is the sequence of the characters of its posix
\* string.  A byte is a number: the k-th byte ever handed to write() is k,
\* or -k when it is the delimiter byte of the handle; a byte that the
\* remote file held before is never one of these.

\* the path of the file object, and path.parent of a trimmed path
FilePath == <<"a", "/", "c">>
RECURSIVE Parent(_)
Parent(path) ==
    IF path = <<>> THEN <<".">>
    ELSE IF path[Len(path)] = "/" THEN SubSeq(path, 1, Len(path) - 1)
    ELSE IF Len(path) = 1 THEN <<".">>
    ELSE Parent(SubSeq(path, 1, Len(path) - 1))

\* dirs maps a key to a listing, and a listing maps the name of each of
\* its entries to the status that the service gave for it
Drop(cache, keys) == [k \in DOMAIN cache \ keys |-> cache[k]]
Put(cache, key, listing) ==
    [k \in DOMAIN cache \cup {key} |-> IF k = key THEN listing ELSE cache[k]]
Entry(name, status) == [n \in {name} |-> status]

\* invalidate_cache(path): the entries of path and of its parent are popped
invalidate_cache_keeps_parent(cache, path) == Drop(cache, {path})
invalidate_cache(cache, path) == Drop(cache, {path, Parent(path)})

\* info(), lines 160-171: the status that GETFILESTATUS gave for path goes
\* into the listing cached for its parent; where that listing has an entry
\* of this name, `f = to_return` binds the loop variable anew and the
\* listing keeps the entry it had
splice(cache, path, status) ==
    LET root == Parent(path)
    IN  IF root \notin DOMAIN cache
        THEN Put(cache, root, Entry(path, status))
        ELSE IF path \in DOMAIN cache[root]
        THEN cache
        ELSE Put(cache, root,
                 [n \in DOMAIN cache[root] \cup {path} |->
                    IF n = path THEN status ELSE cache[root][n]])

\* the policy that _put_data_with_retry and _fetch_range_with_retry make
WithRetryPolicy ==
    ExponentialRetryPolicy(WithRetryRetries, WithRetryDelay, WithRetryBackoff)

\* what the service does with a request that reaches it: CREATE with
\* overwrite replaces the content, APPEND adds to it, and an APPEND whose
\* offset is not the length of the file is refused with BadOffsetException
BadOffsetBody == [json |-> TRUE, exception |-> "BadOffsetException", boolean |-> TRUE]
Service(file, request) ==
    IF request.op = "CREATE"
    THEN [file |-> [file EXCEPT !.exists = TRUE, !.content = request.data],
          status |-> 201, body |-> PlainBody]
    ELSE IF ~file.exists
    THEN [file |-> file, status |-> 404, body |-> PlainBody]
    ELSE IF request.offset # -1 /\ request.offset # Len(file.content)
    THEN [file |-> file, status |-> 400, body |-> BadOffsetBody]
    ELSE [file |-> [file EXCEPT !.content = @ \o request.data],
          status |-> 200, body |-> PlainBody]

\* what may become of one attempt: the service answers; it answers and the
\* answer is lost on the way back; the request never reaches it; it is
\* unavailable (503); it denies access (403)
PutOutcomes == {"answered", "lost", "unreached", "unavailable", "denied"}
Attempt(outcome, file, request) ==
    LET done == Service(file, request)
    IN  IF outcome = "answered"
        THEN [file |-> done.file, last_exception |-> FALSE,
              status |-> done.status, body |-> done.body]
        ELSE IF outcome = "lost"
        THEN [file |-> done.file, last_exception |-> TRUE,
              status |-> 0, body |-> PlainBody]
        ELSE IF outcome = "unreached"
        THEN [file |-> file, last_exception |-> TRUE,
              status |-> 0, body |-> PlainBody]
        ELSE IF outcome = "unavailable"
        THEN [file |-> file, last_exception |-> FALSE,
              status |-> 503, body |-> PlainBody]
        ELSE [file |-> file, last_exception |-> FALSE,
              status |-> 403, body |-> PlainBody]

\* _put_data_with_retry: what it returns or raises for the outcome of
\* rest.call, lines 1041-1052
put_data_with_retry(result, retry_count) ==
    IF result = "returned" THEN "returned"
    ELSE IF result \in {"PermissionError", "FileNotFoundError",
                        "DatalakeBadOffsetException"} THEN result
    ELSE "RuntimeError"

\* flush(), line 907: another piece is cut off the data while this holds
LongerThanBlockOrEqual(data, blocksize) == Len(data) >= blocksize
LongerThanBlock(data, blocksize) == Len(data) > blocksize

\* flush(), lines 909-916: the length of the next piece of data
limit(h, data) ==
    LET places == {i \in 1..h.blocksize : data[i] < 0}
    IN  IF h.delimiter /\ places # {}
        THEN CHOOSE i \in places : \A j \in places : j <= i
        ELSE h.blocksize

\* flush() returns to write(), to the caller, or to close(), which then
\* invalidates the cache and marks the file object closed (lines 984-985)
Returned(h) ==
    [h EXCEPT !.pc = "idle", !.closed = (h.op = "close"), !.op = "",
              !.data = <<>>, !.branch = "", !.request = NoRequest,
              !.retry_count = 0, !.raised = ""]

\* an exception leaves flush(), and with it write() or close()
Raised(h, exception) ==
    [h EXCEPT !.pc = "idle", !.op = "", !.data = <<>>, !.branch = "",
              !.request = NoRequest, !.retry_count = 0,
              !.raised = exception]

\* a piece is handed to _put_data_with_retry: CREATE for the first one,
\* APPEND afterwards, with the offset only in the last branch of flush()
Piece_always_creates(h, branch, data, syncFlag) ==
    [op |-> "CREATE", data |-> data, offset |-> -1, syncFlag |-> syncFlag]
Piece(h, branch, data, syncFlag) ==
    [op |-> IF h.first_write THEN "CREATE" ELSE "APPEND",
     data |-> data,
     offset |-> IF branch = "last" /\ ~h.first_write
                THEN h.loc - Len(data) ELSE -1,
     syncFlag |-> syncFlag]
Sending(h, branch, data, syncFlag) ==
    [h EXCEPT !.pc = "send", !.branch = branch,
              !.request = Piece(h, branch, data, syncFlag),
              !.retry_count = 0]

\* flush(syncFlag, force), lines 881-904, on a file object that is not
\* closed: with an empty buffer only a forced first write sends anything
flush_skips_empty(h, syncFlag, force, op) ==
    LET g == [h EXCEPT !.op = op, !.syncFlag = syncFlag, !.force = force,
                       !.raised = ""]
    IN  IF g.buffer = <<>>
        THEN Returned(g)
        ELSE [g EXCEPT !.pc = "loop", !.data = g.buffer]
flush(h, syncFlag, force, op) ==
    LET g == [h EXCEPT !.op = op, !.syncFlag = syncFlag, !.force = force,
                       !.raised = ""]
    IN  IF g.buffer = <<>>
        THEN IF force /\ g.first_write
             THEN Sending(g, "empty", <<>>, syncFlag)
             ELSE Returned(g)
        ELSE [g EXCEPT !.pc = "loop", !.data = g.buffer]

\* AzureDLFile.__init__, lines 666-701: exists() asks the service and, when
\* the file is there, puts its status into the cache under the parent
open(mode, blocksize, delimiter) ==
    /\ handle.pc = "none" \/ (handle.pc = "idle" /\ handle.closed)
    /\ LET appending == mode = "ab" /\ adl.exists
       IN  handle' = [NoHandle EXCEPT
                        !.pc = "idle", !.mode = mode,
                        !.blocksize = blocksize, !.delimiter = delimiter,
                        !.loc = IF appending THEN Len(adl.content) ELSE 0,
                        !.first_write = ~appending,
                        !.initial = IF appending THEN adl.content ELSE <<>>,
                        !.appending = appending]
    /\ dirs' = IF adl.exists
               THEN splice(dirs, FilePath, Len(adl.content)) ELSE dirs
    /\ UNCHANGED <<not_fs, adl, reader>>

\* the bytes that a call of write() hands over: n bytes, those at the
\* places in delimiters being the delimiter byte
Data(n, delimiters) ==
    [i \in 1..n |-> IF i \in delimiters THEN 0 - (adl.issued + i)
                    ELSE adl.issued + i]

\* write(data), lines 857-865
write(n, delimiters) ==
    /\ handle.pc = "idle"
    /\ adl.issued + n <= MaxData
    /\ delimiters # {} => handle.delimiter
    /\ IF handle.closed
       THEN /\ handle' = [handle EXCEPT !.raised = "ValueError"]
            /\ adl' = adl
       ELSE /\ handle' = flush([handle EXCEPT
                                  !.buffer = @ \o Data(n, delimiters),
                                  !.loc = @ + n,
                                  !.accepted = @ \o Data(n, delimiters)],
                               "DATA", FALSE, "write")
            /\ adl' = [adl EXCEPT !.issued = @ + n]
    /\ UNCHANGED <<not_fs, reader, dirs>>

\* flush(syncFlag, force) called by the user, lines 881-885
user_flush(syncFlag, force) ==
    /\ handle.pc = "idle"
    /\ IF handle.closed
       THEN handle' = [handle EXCEPT !.raised = ""]
       ELSE IF syncFlag \notin {"METADATA", "DATA", "CLOSE"}
       THEN handle' = [handle EXCEPT !.raised = "ValueError"]
       ELSE handle' = flush(handle, syncFlag, force, "flush")
    /\ UNCHANGED <<not_fs, adl, reader, dirs>>

\* close(), lines 980-985, also called by __exit__
close ==
    /\ handle.pc = "idle"
    /\ IF handle.closed
       THEN handle' = [handle EXCEPT !.raised = ""]
       ELSE handle' = flush(handle, "CLOSE", TRUE, "close")
    /\ dirs' = IF handle'.closed /\ ~handle.closed
               THEN invalidate_cache(dirs, FilePath) ELSE dirs
    /\ UNCHANGED <<not_fs, adl, reader>>

\* flush(), the head of the loop at line 907 and what follows the loop:
\* a piece of limit bytes while the data is longer than blocksize, then
\* the rest becomes the buffer and, if forced, is sent as the last piece
flush_loop ==
    /\ handle.pc = "loop"
    /\ IF LongerThanBlock(handle.data, handle.blocksize)
       THEN /\ handle' = Sending(handle, "block",
                                 SubSeq(handle.data, 1, limit(handle, handle.data)),
                                 "DATA")
            /\ dirs' = dirs
       ELSE IF handle.force
       THEN /\ handle' = Sending([handle EXCEPT !.buffer = handle.data],
                                 "last", handle.data, handle.syncFlag)
            /\ dirs' = dirs
       ELSE /\ handle' = Returned([handle EXCEPT !.buffer = handle.data])
            /\ dirs' = dirs
    /\ UNCHANGED <<not_fs, adl, reader>>

\* flush() goes on after a piece was sent: lines 900-901, 928 and 939-940,
\* 959 and 971-972; acked counts the bytes, creates and appends the pieces
\* of each kind (up to two) that were sent so
AfterPiece(h) ==
    LET g == [h EXCEPT !.first_write = FALSE,
                       !.acked = @ + Len(h.request.data),
                       !.creates = IF h.request.op = "CREATE" /\ @ < 2
                                   THEN @ + 1 ELSE @,
                       !.appends = IF h.request.op = "APPEND" /\ @ < 2
                                   THEN @ + 1 ELSE @]
    IN  IF h.branch = "empty" THEN Returned(g)
        ELSE IF h.branch = "block"
        THEN [g EXCEPT !.pc = "loop",
                       !.data = SubSeq(@, Len(h.request.data) + 1, Len(@)),
                       !.request = NoRequest, !.retry_count = 0]
        ELSE Returned([g EXCEPT !.buffer = <<>>])

\* one attempt of the piece in rest.call: the policy is asked whether to
\* try again; if not, _put_data_with_retry returns or raises
put_attempt(outcome) ==
    /\ handle.pc = "send"
    /\ outcome # "answered" => adl.faults < MaxFaults
    /\ LET got == Attempt(outcome, adl, handle.request)
           again == should_retry(WithRetryPolicy, got.status,
                                 got.last_exception, handle.retry_count)
           result == IF got.last_exception THEN "DatalakeRESTException"
                     ELSE StatusError(got.status, got.body)
           out == put_data_with_retry(result, handle.retry_count)
       IN  /\ adl' = [got.file EXCEPT
                        !.faults = IF outcome = "answered" THEN @ ELSE @ + 1]
           /\ handle' = IF again
                        THEN [handle EXCEPT !.retry_count = @ + 1]
                        ELSE IF out = "returned" THEN AfterPiece(handle)
                        ELSE Raised(handle, out)
           /\ dirs' = IF ~again /\ out = "returned"
                         /\ handle.op = "close" /\ handle.branch # "block"
                      THEN invalidate_cache(dirs, FilePath) ELSE dirs
    /\ UNCHANGED <<not_fs, reader>>

\* info(path) by some user of the file system: the status of the file is
\* put into the cache under the parent of its path
info ==
    /\ handle.pc = "idle"
    /\ adl.exists
    /\ dirs' = splice(dirs, FilePath, Len(adl.content))
    /\ dirs' # dirs
    /\ UNCHANGED <<not_fs, adl, handle, reader>>

FileNext ==
    \/ \E mode \in {"wb", "ab"} : \E blocksize \in 1..MaxBlock :
         \E delimiter \in BOOLEAN : open(mode, blocksize, delimiter)
    \/ \E n \in 0..MaxData : \E delimiters \in SUBSET (1..n) :
         write(n, delimiters)
    \/ \E syncFlag \in {"METADATA", "DATA", "CLOSE", "BOGUS"} :
         \E force \in BOOLEAN : user_flush(syncFlag, force)
    \/ close
    \/ flush_loop
    \/ \E outcome \in PutOutcomes : put_attempt(outcome)
    \/ info

FileSpec == AtRestInit /\ [][FileNext]_vars

\* ======================================================= the read path
\* AzureDLFile in mode 'rb' (azure/datalake/store/core.py): seek, read and
\* readline over the cache of one block.  The remote file does not change
\* while it is read; its byte at offset i is i + 1, or -(i + 1) where the
\* file has a newline.  op, out and stale are not fields of the program:
\* the last operation, the bytes it returned, and whether a fetch of the
\* file object has raised.

Smaller(a, b) == IF a < b THEN a ELSE b

\* the Python slice s[a:b] for 0 <= a
Slice(s, a, b) == SubSeq(s, Smaller(a, Len(s)) + 1, Smaller(b, Len(s)))

\* the remote files that are read
Files ==
    UNION {{[i \in 1..n |-> IF i \in newlines THEN 0 - i ELSE i] :
              newlines \in SUBSET (1..n)} : n \in 0..MaxSize}

\* _fetch(start, end), lines 784-789: start and end are set, then the
\* range is fetched, which may raise, then the cache is set
fetch_beyond_size(r, start, end, ok) ==
    LET g == [r EXCEPT !.start = start, !.end = end]
    IN  IF ok
        THEN [g EXCEPT !.cache = Slice(r.file, g.start, g.end)]
        ELSE [g EXCEPT !.raised = "RuntimeError", !.stale = TRUE]
fetch(r, start, end, ok) ==
    LET g == [r EXCEPT !.start = start, !.end = Smaller(end, r.size)]
    IN  IF ok
        THEN [g EXCEPT !.cache = Slice(r.file, g.start, g.end)]
        ELSE [g EXCEPT !.raised = "RuntimeError", !.stale = TRUE]

\* _read_blocksize(), lines 801-812, fetches if loc is before the end of
\* the file and outside the cached block
needs_fetch(r) == r.loc < r.size /\ ~(r.start <= r.loc /\ r.loc < r.end)
read_blocksize(r, ok) ==
    IF r.loc >= r.size
    THEN [r EXCEPT !.start = r.size, !.end = r.size, !.cache = <<>>]
    ELSE IF r.start <= r.loc /\ r.loc < r.end THEN r
    ELSE fetch(r, r.loc, r.loc + r.blocksize, ok)

\* the loop of read(), lines 831-839; failing = k > 0: the k-th fetch of
\* the operation raises.  An iteration that neither moves loc nor ends the
\* loop repeats for ever.
RECURSIVE read_loop(_, _, _)
read_loop(r, length, failing) ==
    IF length <= 0 THEN r
    ELSE LET g == read_blocksize(r, ~(needs_fetch(r) /\ failing = 1))
             data_read == Slice(g.cache, g.loc - g.start,
                                Smaller(g.loc - g.start + length,
                                        g.end - g.start))
             h == [g EXCEPT !.loc = @ + Len(data_read),
                            !.out = @ \o data_read]
         IN  IF g.raised # "" THEN g
             ELSE IF h.loc >= h.size THEN h
             ELSE IF data_read = <<>> THEN [h EXCEPT !.pc = "hung"]
             ELSE read_loop(h, length - Len(data_read),
                            IF needs_fetch(r) THEN failing - 1 ELSE failing)

\* the place of the first newline of s, or 0: s.find(b'\n') + 1
found(s) ==
    LET places == {i \in 1..Len(s) : s[i] < 0}
    IN  IF places = {} THEN 0
        ELSE CHOOSE i \in places : \A j \in places : i <= j

\* the loop of readline(), lines 749-767
RECURSIVE readline_loop(_, _, _)
readline_loop(r, length, failing) ==
    IF r.end >= r.size /\ r.loc >= r.end THEN r
    ELSE LET g == read_blocksize(r, ~(needs_fetch(r) /\ failing = 1))
             tail == Slice(g.cache, g.loc - g.start, Len(g.cache))
             partialLine ==
                 IF found(tail) > 0
                 THEN Slice(g.cache, g.loc - g.start,
                            Smaller(g.loc - g.start + found(tail),
                                    g.loc - g.start + length))
                 ELSE tail
             h == [g EXCEPT !.loc = @ + Len(partialLine),
                            !.out = @ \o partialLine]
         IN  IF g.raised # "" THEN g
             ELSE IF found(tail) > 0 THEN h
             ELSE IF partialLine = <<>> /\ ~(h.end >= h.size /\ h.loc >= h.end)
             THEN [h EXCEPT !.pc = "hung"]
             ELSE readline_loop(h, length,
                                IF needs_fetch(r) THEN failing - 1 ELSE failing)

\* AzureDLFile.__init__ with mode 'rb', lines 672-701
open_read(file, blocksize) ==
    /\ reader.pc = "none"
    /\ reader' = [NoReader EXCEPT !.pc = "open", !.file = file,
                                  !.size = Len(file),
                                  !.blocksize = blocksize, !.op = "open"]
    /\ UNCHANGED <<not_fs, adl, handle, dirs>>

\* seek(loc, whence), lines 721-737
seek(loc, whence) ==
    /\ reader.pc = "open"
    /\ LET r == [reader EXCEPT !.op = "seek", !.out = <<>>, !.raised = ""]
           nloc == IF whence = 0 THEN loc
                   ELSE IF whence = 1 THEN r.loc + loc
                   ELSE r.size + loc
       IN  reader' = IF whence \notin {0, 1, 2} \/ nloc < 0 \/ nloc > r.size
                     THEN [r EXCEPT !.raised = "ValueError"]
                     ELSE [r EXCEPT !.loc = nloc]
    /\ UNCHANGED <<not_fs, adl, handle, dirs>>

\* read(length), lines 823-841
read(length, failing) ==
    /\ reader.pc = "open"
    /\ LET r == [reader EXCEPT !.op = "read", !.out = <<>>, !.raised = ""]
       IN  reader' = read_loop(r, IF length < 0 THEN r.size ELSE length,
                               failing)
    /\ UNCHANGED <<not_fs, adl, handle, dirs>>

\* readline(length), lines 745-767
readline(length, failing) ==
    /\ reader.pc = "open"
    /\ LET r == [reader EXCEPT !.op = "readline", !.out = <<>>,
                               !.raised = ""]
       IN  reader' = readline_loop(r, IF length < 0 THEN r.size ELSE length,
                                   failing)
    /\ UNCHANGED <<not_fs, adl, handle, dirs>>

ReadNext ==
    \/ \E file \in Files : \E blocksize \in 1..MaxBlock :
         open_read(file, blocksize)
    \/ \E loc \in (0 - MaxSize)..(MaxSize + 1) : \E whence \in 0..3 :
         seek(loc, whence)
    \/ \E length \in -1..MaxSize : \E failing \in 0..MaxSize :
         read(length, failing)
    \/ \E length \in -1..MaxSize : \E failing \in 0..MaxSize :
         readline(length, failing)

ReadSpec == AtRestInit /\ [][ReadNext]_vars

\* ================================================ the directory cache
\* AzureDLFileSystem.dirs (azure/datalake/store/core.py) under ls, info,
\* exists, mv and rm.  adl.tree is the set of paths that exist in
\* the remote store, adl.changed those among them that another client has
\* rewritten since, which shows in their status; adl.last is not a field of
\* the program: the last operation of the file system, its arguments, the
\* keys that the cache held before it, and what it raised or returned.

\* str.startswith
StartsWith(s, prefix) ==
    Len(prefix) <= Len(s) /\ SubSeq(s, 1, Len(prefix)) = prefix

\* the root of the store, which always exists
Root == <<".">>

\* the entries of the remote store inside path
Below(tree, path) == {p \in tree : StartsWith(p, path \o <<"/">>)}

\* the status that the service gives for a path
Status(store, path) == IF path \in store.changed THEN 1 ELSE 0

\* what LISTSTATUS answers for a path that exists: the entries of a
\* directory, or the file itself
LISTSTATUS(store, key) ==
    IF IsFile(key) THEN Entry(key, Status(store, key))
    ELSE [p \in {q \in store.tree : Parent(q) = key} |-> Status(store, p)]

\* _ls(path, invalidate_cache), lines 114-127; denied: the service answers
\* 403 to every request of the operation
fs_ls(cache, store, key, invalidate, denied) ==
    LET kept == IF invalidate THEN invalidate_cache(cache, key) ELSE cache
    IN  IF key \in DOMAIN kept
        THEN [cache |-> kept, raised |-> "", listing |-> kept[key]]
        ELSE IF denied
        THEN [cache |-> kept, raised |-> "PermissionError", listing |-> <<>>]
        ELSE IF key \notin store.tree \cup {Root}
        THEN [cache |-> kept, raised |-> "FileNotFoundError",
              listing |-> <<>>]
        ELSE [cache |-> Put(kept, key, LISTSTATUS(store, key)),
              raised |-> "", listing |-> LISTSTATUS(store, key)]

\* info(path, invalidate_cache), lines 146-179, for a path that is not the
\* root
fs_info(cache, store, path, invalidate, denied) ==
    IF invalidate
    THEN IF denied
         THEN [cache |-> cache, raised |-> "PermissionError", status |-> -1]
         ELSE IF path \notin store.tree
         THEN [cache |-> cache, raised |-> "FileNotFoundError",
               status |-> -1]
         ELSE [cache |-> splice(cache, path, Status(store, path)),
               raised |-> "", status |-> Status(store, path)]
    ELSE LET listed == fs_ls(cache, store, Parent(path), FALSE, denied)
         IN  IF listed.raised # ""
             THEN [cache |-> listed.cache, raised |-> listed.raised,
                   status |-> -1]
             ELSE IF path \in DOMAIN listed.listing
             THEN [cache |-> listed.cache, raised |-> "",
                   status |-> listed.listing[path]]
             ELSE [cache |-> listed.cache, raised |-> "FileNotFoundError",
                   status |-> -1]

\* exists(path, invalidate_cache), lines 440-446
fs_exists_never_raises(cache, store, path, invalidate, denied) ==
    LET got == fs_info(cache, store, path, invalidate, denied)
    IN  [cache |-> got.cache, raised |-> "", found |-> got.raised = ""]
fs_exists(cache, store, path, invalidate, denied) ==
    LET got == fs_info(cache, store, path, invalidate, denied)
    IN  IF got.raised = "FileNotFoundError"
        THEN [cache |-> got.cache, raised |-> "", found |-> FALSE]
        ELSE [cache |-> got.cache, raised |-> got.raised,
              found |-> got.raised = ""]

\* rm(), lines 560-561: the keys that a recursive rm invalidates one by one
rm_matches_none(cache, path) == {}
rm_matches(cache, path) == {p \in DOMAIN cache : StartsWith(p, path)}

RECURSIVE invalidate_all(_, _)
invalidate_all(cache, matches) ==
    IF matches = {} THEN cache
    ELSE LET m == CHOOSE p \in matches : TRUE
         IN  invalidate_all(invalidate_cache(cache, m), matches \ {m})

\* mv(), lines 508-509: both paths are invalidated
mv_invalidates_source_only(cache, path1, path2) ==
    invalidate_cache(cache, path1)
mv_invalidates(cache, path1, path2) ==
    invalidate_cache(invalidate_cache(cache, path1), path2)

\* the record of an operation
Operation(op, path, raised) ==
    [NoOperation EXCEPT !.op = op, !.path = path, !.raised = raised]

\* RENAME and DELETE in the remote store
Renamed(p, path1, path2) ==
    IF p = path1 \/ StartsWith(p, path1 \o <<"/">>)
    THEN path2 \o SubSeq(p, Len(path1) + 1, Len(p))
    ELSE p
Rename(store, path1, path2) ==
    [store EXCEPT !.tree = {Renamed(p, path1, path2) : p \in @},
                  !.changed = {Renamed(p, path1, path2) : p \in @},
                  !.moves = @ + 1]
Delete(store, path) ==
    [store EXCEPT !.tree = (@ \ {path}) \ Below(@, path),
                  !.changed = (@ \ {path}) \ Below(@, path),
                  !.moves = @ + 1]

\* no file object is open: the operations of the file system are called
FsAtRest == handle.pc = "none" /\ reader.pc = "none"

\* ls(path, invalidate_cache), lines 129-144: an empty listing makes it ask
\* info(path, invalidate_cache=False), which lists the parent
ls(path, invalidate) ==
    /\ FsAtRest
    /\ LET listed == fs_ls(dirs, adl, path, invalidate, FALSE)
           inf == fs_info(listed.cache, adl, path, FALSE, FALSE)
           empty == listed.raised = "" /\ DOMAIN listed.listing = {}
       IN  /\ dirs' = IF empty THEN inf.cache ELSE listed.cache
           /\ adl' = [adl EXCEPT !.last =
                [Operation("ls", path,
                           IF empty THEN inf.raised ELSE listed.raised)
                   EXCEPT !.bypass = invalidate,
                          !.names = IF listed.raised = ""
                                    THEN DOMAIN listed.listing ELSE {}]]
    /\ UNCHANGED <<not_fs, handle, reader>>

\* info(path, invalidate_cache)
info_path(path, invalidate, denied) ==
    /\ FsAtRest
    /\ LET got == fs_info(dirs, adl, path, invalidate, denied)
       IN  /\ dirs' = got.cache
           /\ adl' = [adl EXCEPT !.last =
                [Operation("info", path, got.raised)
                   EXCEPT !.bypass = invalidate, !.status = got.status]]
    /\ UNCHANGED <<not_fs, handle, reader>>

\* exists(path, invalidate_cache)
exists(path, invalidate, denied) ==
    /\ FsAtRest
    /\ LET got == fs_exists(dirs, adl, path, invalidate, denied)
       IN  /\ dirs' = got.cache
           /\ adl' = [adl EXCEPT !.last =
                [Operation("exists", path, got.raised)
                   EXCEPT !.bypass = invalidate, !.found = got.found]]
    /\ UNCHANGED <<not_fs, handle, reader>>

\* mv(path1, path2), lines 502-509: the service refuses to rename what is
\* not there, onto what is there, or into what is not there
mv(path1, path2) ==
    /\ FsAtRest
    /\ path1 # path2
    /\ adl.moves < MaxMoves
    /\ LET raised ==
             IF path1 \notin adl.tree THEN "FileNotFoundError"
             ELSE IF \/ path2 \in adl.tree
                     \/ Parent(path2) \notin adl.tree \cup {Root}
                     \/ IsFile(Parent(path2))
                     \/ IsFile(path1) # IsFile(path2)
                     \/ StartsWith(path2, path1 \o <<"/">>)
             THEN "DatalakeRESTException"
             ELSE ""
       IN  /\ dirs' = IF raised = "" THEN mv_invalidates(dirs, path1, path2)
                      ELSE dirs
           /\ adl' = [(IF raised = "" THEN Rename(adl, path1, path2) ELSE adl)
                        EXCEPT !.last =
                          [Operation("mv", path1, raised)
                             EXCEPT !.destination = path2,
                                    !.before = IF raised = ""
                                                THEN DOMAIN dirs ELSE {}]]
    /\ UNCHANGED <<not_fs, handle, reader>>

\* rm(path, recursive), lines 553-561: exists() puts the status of path
\* into the cache; DELETE is refused for a directory with entries unless
\* recursive; then the cache is invalidated
rm(path, recursive) ==
    /\ FsAtRest
    /\ adl.moves < MaxMoves
    /\ LET there == fs_exists(dirs, adl, path, TRUE, FALSE)
           known == invalidate_cache(there.cache, path)
           raised ==
             IF there.raised # "" THEN there.raised
             ELSE IF ~there.found THEN "FileNotFoundError"
             ELSE IF ~recursive /\ Below(adl.tree, path) # {}
             THEN "DatalakeRESTException"
             ELSE ""
       IN  /\ dirs' = IF raised # "" THEN there.cache
                      ELSE IF recursive
                      THEN invalidate_all(known, rm_matches(known, path))
                      ELSE known
           /\ adl' = [(IF raised = "" THEN Delete(adl, path) ELSE adl)
                        EXCEPT !.last =
                          [Operation("rm", path, raised)
                             EXCEPT !.recursive = recursive,
                                    !.before = IF raised = ""
                                                THEN DOMAIN dirs ELSE {}]]
    /\ UNCHANGED <<not_fs, handle, reader>>

\* another client rewrites a file of the store
change(path) ==
    /\ FsAtRest
    /\ path \in adl.tree /\ IsFile(path)
    /\ path \notin adl.changed
    /\ Cardinality(adl.changed) < MaxChanges
    /\ adl' = [adl EXCEPT !.changed = @ \cup {path}]
    /\ UNCHANGED <<not_fs, handle, reader, dirs>>

DirNext ==
    \/ \E path \in Paths : \E invalidate \in BOOLEAN : ls(path, invalidate)
    \/ \E path \in Paths : \E invalidate, denied \in BOOLEAN :
         info_path(path, invalidate, denied)
    \/ \E path \in Paths : \E invalidate, denied \in BOOLEAN :
         exists(path, invalidate, denied)
    \/ \E path1, path2 \in Paths : mv(path1, path2)
    \/ \E path \in Paths : \E recursive \in BOOLEAN : rm(path, recursive)
    \/ \E path \in Paths : change(path)

DirSpec == AtRestInit /\ [][DirNext]_vars

\* ==================================================== StateManager alone
\* A StateManager('pending', ..., 'errored') whose __setitem__ is called
\* with any object and any state, in any order; it is kept in fstates.

\* manager[obj] = state
setitem(obj, state) ==
    /\ pc = "idle" /\ files = <<>>
    /\ fstates' = SetItem(fstates, obj, state)
    /\ UNCHANGED <<others, config, files, futures, pool, shutdown_event, saved,
                   pc, caller, timeout, elapsed, cursor>>

ManagerNext ==
    \E obj \in 1..MaxObjects : \E state \in FileStates : setitem(obj, state)

ManagerSpec == AtRestInit /\ [][ManagerNext]_vars

\* ============================================== the recursive ACL walker
\* multi_processor_change_acl (azure/datalake/store/multiprocessor.py): the
\* calling thread, the walks in walk_thread_pool, the sub-processes running
\* processor() with their function_thread_pool, and the thread running
\* monitor_exception.  The tree below the given path does not change while
\* it is walked.  A path is a number: 0 is the path given to the call, k is
\* the k-th other path of the tree, and LISTSTATUS lists the entries of a
\* directory by their numbers.  The log queue and its listener thread carry
\* log records only and are left out.

\* the trees of n paths below a directory: every path lies in the root or
\* in a directory with a smaller number
TreesOf(n) ==
    {t \in [1..n -> [parent : 0..n, type : {"DIRECTORY", "FILE"}]] :
       \A k \in 1..n :
         /\ t[k].parent < k
         /\ t[k].parent # 0 => t[t[k].parent].type = "DIRECTORY"}

Trees == UNION {TreesOf(n) : n \in 0..MaxNodes}

\* the names that func_table knows, and the default of method_name
Methods == {"mod_acl", "set_acl", ""}

\* adl._ls(path): the entries of a directory, in the order of the listing
RECURSIVE EntriesFrom(_, _, _)
EntriesFrom(tree, d, k) ==
    IF k > Len(tree) THEN <<>>
    ELSE (IF tree[k].parent = d THEN <<k>> ELSE <<>>)
         \o EntriesFrom(tree, d, k + 1)

Entries(tree, d) == EntriesFrom(tree, d, 1)

\* the lists that walk puts on file_path_queue for one listing: a list at
\* every queue_bucket_size paths, and one for the paths left over
RECURSIVE Buckets(_)
Buckets(paths) ==
    IF paths = <<>> THEN <<>>
    ELSE IF Len(paths) <= queue_bucket_size THEN <<paths>>
    ELSE <<SubSeq(paths, 1, queue_bucket_size)>>
         \o Buckets(SubSeq(paths, queue_bucket_size + 1, Len(paths)))

\* the paths of a list
Range(list) == {list[k] : k \in DOMAIN list}

\* CountUpDownLatch
increment(val) == val + 1
decrement(val) == val - 1
is_zero(val) == val <= 0

end_queue_sentinel == "sentinel"

\* the sub-processes that run
Alive == {p \in DOMAIN acl.process_list :
            acl.process_list[p].pc \in {"start", "loop", "shutdown"}}

\* multi_processor_change_acl(adl, path, method_name, acl_spec,
\* number_of_sub_process), lines 67-124: the sub-processes and the monitor
\* thread are started, the path itself is put on the queue, the latch is
\* incremented for it and the calling thread enters walk(path)
multi_processor_change_acl(tree, method_name, number_of_sub_process) ==
    /\ acl.pc = "idle"
    /\ acl' = [NoWalk EXCEPT
                 !.pc = "walk",
                 !.tree = tree,
                 !.method_name = method_name,
                 !.process_list = [p \in 1..number_of_sub_process |->
                                     [pc |-> "start", pool |-> {}]],
                 !.monitor = "poll",
                 !.file_path_queue = <<<<0>>>>,
                 !.unfinished_tasks = 1,
                 !.dir_processed_counter = increment(0),
                 !.submitted = {0}]
    /\ UNCHANGED not_acl

\* the try block of walk(walk_path), lines 85-104, on the calling thread
\* for the path itself and on a thread of walk_thread_pool for any other
\* directory; failing: _ls raises something else than FileNotFoundError
walk(walk_path, failing) ==
    /\ walk_path \in acl.submitted
    /\ failing => acl.faults < MaxFaults
    /\ LET all_files == Entries(acl.tree, walk_path)
           directories == {k \in Range(all_files) :
                             acl.tree[k].type = "DIRECTORY"}
           lists == Buckets(all_files)
       IN  IF failing
           THEN acl' = [acl EXCEPT
                  !.submitted = @ \ {walk_path},
                  !.listed = @ \cup {walk_path},
                  !.faults = @ + 1,
                  !.exception_queue = Append(@, "walk")]
           ELSE acl' = [acl EXCEPT
                  !.submitted = (@ \ {walk_path}) \cup directories,
                  !.listed = @ \cup {walk_path},
                  !.dir_processed_counter = @ + Cardinality(directories),
                  !.file_path_queue = @ \o lists,
                  !.unfinished_tasks = @ + Len(lists)]
    /\ UNCHANGED not_acl

\* the finally block of walk, line 106; the calling thread goes on to
\* dir_processed_counter.is_zero()
walk_finally(walk_path) ==
    /\ walk_path \in acl.listed
    /\ acl' = [acl EXCEPT
                 !.listed = @ \ {walk_path},
                 !.dir_processed_counter = decrement(@),
                 !.pc = IF walk_path = 0 THEN "is_zero" ELSE @]
    /\ UNCHANGED not_acl

\* is_zero() returns, lines 126-128: the walk pool is shut down and the
\* queue closed
latch_is_zero ==
    /\ acl.pc = "is_zero"
    /\ is_zero(acl.dir_processed_counter)
    /\ acl' = [acl EXCEPT !.pc = "join"]
    /\ UNCHANGED not_acl

\* file_path_queue.join() returns, lines 129-131: task_done() has been
\* called for every list put; the flag is set
queue_join ==
    /\ acl.pc = "join"
    /\ acl.unfinished_tasks = 0
    /\ acl' = [acl EXCEPT !.pc = "join_children",
                          !.finish_queue_processing_flag = TRUE]
    /\ UNCHANGED not_acl

\* every child.join() has returned, lines 132-138: the sentinel is put on
\* the exception queue
children_join ==
    /\ acl.pc = "join_children"
    /\ Alive = {}
    /\ acl' = [acl EXCEPT !.pc = "join_monitor",
                          !.exception_queue = Append(@, end_queue_sentinel)]
    /\ UNCHANGED not_acl

\* exception_monitor_thread.join() returns, lines 139-147: the call
\* returns; no statement of the calling thread raises the exception that
\* was reported
monitor_join ==
    /\ acl.pc = "join_monitor"
    /\ acl.monitor \in {"done", "raised"}
    /\ acl' = [acl EXCEPT !.pc = "returned"]
    /\ UNCHANGED not_acl

\* processor(), lines 161-166: func_table[method_name] raises KeyError for
\* a name that is not in the table; the exception is put on the exception
\* queue and the finally block is entered
processor_start(p) ==
    /\ p \in DOMAIN acl.process_list
    /\ acl.process_list[p].pc = "start"
    /\ IF acl.method_name = ""
       THEN acl' = [acl EXCEPT !.process_list[p].pc = "shutdown",
                               !.exception_queue = Append(@, "processor")]
       ELSE acl' = [acl EXCEPT !.process_list[p].pc = "loop"]
    /\ UNCHANGED not_acl

\* file_path_queue.task_done(), line 183: called as soon as the list is
\* taken
task_done(unfinished_tasks) == unfinished_tasks - 1

\* one turn of the loop of processor with a list on the queue, lines
\* 180-186: get, task_done, and a submit of func_wrapper for every path
processor_get(p) ==
    /\ p \in DOMAIN acl.process_list
    /\ acl.process_list[p].pc = "loop"
    /\ ~acl.finish_queue_processing_flag
    /\ acl.file_path_queue # <<>>
    /\ acl' = [acl EXCEPT
                 !.file_path_queue = Tail(@),
                 !.unfinished_tasks = task_done(@),
                 !.process_list[p].pool = @ \cup Range(Head(acl.file_path_queue))]
    /\ UNCHANGED not_acl

\* the loop of processor sees the flag, line 180, and the finally block
\* is entered
processor_flag(p) ==
    /\ p \in DOMAIN acl.process_list
    /\ acl.process_list[p].pc = "loop"
    /\ acl.finish_queue_processing_flag
    /\ acl' = [acl EXCEPT !.process_list[p].pc = "shutdown"]
    /\ UNCHANGED not_acl

\* func_wrapper(func, path, spec) on a thread of function_thread_pool,
\* lines 168-178; failing: the ACL call raises, and the bare except passes
func_wrapper(p, path, failing) ==
    /\ p \in Alive
    /\ path \in acl.process_list[p].pool
    /\ failing => acl.faults < MaxFaults
    /\ acl' = [acl EXCEPT
                 !.process_list[p].pool = @ \ {path},
                 !.applied = IF failing THEN @ ELSE @ \cup {path},
                 !.faults = IF failing THEN @ + 1 ELSE @]
    /\ UNCHANGED not_acl

\* function_thread_pool.shutdown() returns, line 196: the process ends
processor_exit(p) ==
    /\ p \in DOMAIN acl.process_list
    /\ acl.process_list[p].pc = "shutdown"
    /\ acl.process_list[p].pool = {}
    /\ acl' = [acl EXCEPT !.process_list[p].pc = "exited"]
    /\ UNCHANGED not_acl

\* p.terminate() for every process
terminate(process_list) ==
    [p \in DOMAIN process_list |->
       IF process_list[p].pc = "exited" THEN process_list[p]
       ELSE [process_list[p] EXCEPT !.pc = "terminated"]]

\* monitor_exception takes an item from the exception queue, lines 27-46:
\* the sentinel ends the thread; anything else is stored in the global
\* exception, the processes are terminated and joined, and then `import
\* thread` or `raise Exception(excep)` raises in the monitor thread
monitor_exception ==
    /\ acl.monitor = "poll"
    /\ acl.exception_queue # <<>>
    /\ IF Head(acl.exception_queue) = end_queue_sentinel
       THEN acl' = [acl EXCEPT !.exception_queue = Tail(@),
                               !.monitor = "done"]
       ELSE acl' = [acl EXCEPT !.exception_queue = Tail(@),
                               !.exception = Head(acl.exception_queue),
                               !.process_list = terminate(@),
                               !.monitor = "raised"]
    /\ UNCHANGED not_acl

AclThreads ==
    \/ \E walk_path \in 0..MaxNodes : \E failing \in BOOLEAN :
         walk(walk_path, failing)
    \/ \E walk_path \in 0..MaxNodes : walk_finally(walk_path)
    \/ latch_is_zero
    \/ queue_join
    \/ children_join
    \/ monitor_join
    \/ \E p \in 1..MaxProcesses : processor_start(p)
    \/ \E p \in 1..MaxProcesses : processor_get(p)
    \/ \E p \in 1..MaxProcesses : processor_flag(p)
    \/ \E p \in 1..MaxProcesses : \E path \in 0..MaxNodes :
         \E failing \in BOOLEAN : func_wrapper(p, path, failing)
    \/ \E p \in 1..MaxProcesses : processor_exit(p)
    \/ monitor_exception

AclNext ==
    \/ \E tree \in Trees : \E method_name \in Methods :
         \E number_of_sub_process \in 1..MaxProcesses :
           multi_processor_change_acl(tree, method_name, number_of_sub_process)
    \/ AclThreads

AclSpec == AtRestInit /\ [][AclNext]_vars

\* Every thread and every process is scheduled by the operating system:
\* a step that one of them can take is taken at last.  A request that is
\* going to fail is the service's choice, and nothing is assumed of it.
AclLiveSpec == AclSpec /\ WF_vars(AclThreads)

\* ================================================================= claims
Keys == 1..Len(files)

\* the transfer work items submitted for the file at i, oldest first
TransfersOf(i) ==
    SelectSeq(futures, LAMBDA w : w.fn = "transfer" /\ w.file = i)

\* the merge work items submitted for the file at i
MergesOf(i) ==
    SelectSeq(futures, LAMBDA w : w.fn = "merge" /\ w.file = i)

RECURSIVE SumSizes(_)
SumSizes(ws) == IF ws = <<>> THEN 0 ELSE Head(ws).size + SumSizes(Tail(ws))

\* the state of the chunk at position k of the file at i
ChunkState(i, k) == GetItem(files[i].cstates, files[i].chunks[k].name)

\* the state of the future of the chunk at position k of the file at i
ChunkFuture(i, k) == futures[files[i].chunks[k].future].state

\* run(monitor=True) has returned without a KeyboardInterrupt
RunCompleted == pc = "done" /\ timeout = 0 /\ caller = "user"

\* a step in which _update ran to its end
HookRan == (wait \/ shutdown_return) /\ pc' # "raised"

\* C1: for every file that was split, the chunks handed to the pool have
\* the offsets 0, C, 2C, ... below L and sizes that sum to L.
C1_ChunksCoverFile ==
    \A i \in Keys :
      GetItem(fstates, i) # "pending" =>
        LET ws == TransfersOf(i)
            L  == files[i].nbytes
        IN  /\ \A k \in 1..Len(ws) : ws[k].offset = (k - 1) * chunksize
            /\ \A k \in 1..Len(ws) : ws[k].offset < L
            /\ Len(ws) * chunksize >= L
            /\ SumSizes(ws) = L

\* C2: after run completes and no chunk or merge task errored or was
\* cancelled, every submitted file is finished and merge was called at
\* most once per file, never for a single chunk or without a merge function.
C2_RunFinishesAllFiles ==
    (RunCompleted /\ \A t \in 1..Len(futures) :
                       futures[t].state \notin {"raised", "reterr", "cancelled"})
    => \A i \in Keys :
         /\ GetItem(fstates, i) = "finished"
         /\ Len(MergesOf(i)) <= 1
         /\ (~merge \/ Len(files[i].chunks) <= 1) => Len(MergesOf(i)) = 0

\* C3: a file with exactly one chunk has that chunk named by the
\* destination path and never gets a merge task, whatever merge function
\* and temporary path are configured.
C3_SingleChunkNoMerge ==
    \A i \in Keys :
      Len(files[i].chunks) = 1 =>
        /\ files[i].chunks[1].name = DstName
        /\ files[i].merge = NoFuture
        /\ MergesOf(i) = <<>>
        /\ GetItem(fstates, i) # "merging"

C3_Witness ==
    \E i \in Keys :
      /\ merge /\ tmp_path
      /\ Len(files[i].chunks) = 1
      /\ files[i].nbytes > 0
      /\ GetItem(fstates, i) = "finished"

\* C4: after submit and before run the file is pending and all of its
\* chunks exist, each in state pending.
C4_SubmitCreatesChunks ==
    pc = "idle" =>
      \A i \in Keys :
        /\ GetItem(fstates, i) = "pending"
        /\ Len(files[i].chunks) = Len(Offsets(files[i].nbytes, chunksize))
        /\ \A k \in 1..Len(files[i].chunks) : ChunkState(i, k) = "pending"

\* C5: when the hook runs over a transferring file, each chunk whose
\* future is done gets its state from the future: cancelled gives
\* cancelled, an exception gives errored, any other completion finished.
C5_ChunkClassification ==
    [][HookRan =>
        \A i \in Keys :
          GetItem(fstates, i) = "transferring" =>
            \A k \in 1..Len(files[i].chunks) :
              LET state == ChunkFuture(i, k)
                  after == GetItem(files'[i].cstates, files[i].chunks[k].name)
              IN  /\ state = "cancelled" => after = "cancelled"
                  /\ state = "raised" => after = "errored"
                  /\ state \in {"ok", "early", "reterr"} => after = "finished"
                  /\ state \notin FutureDone => after = ChunkState(i, k)]_vars

C5_Witness ==
    \E i \in Keys : \E j, k \in 1..Len(files[i].chunks) :
      /\ ChunkState(i, j) = "cancelled"
      /\ ChunkState(i, k) = "errored"

\* C6: a transfer task whose failure was captured and returned as the
\* error component of (bytes, error) has its chunk moved to errored by the
\* scheduler.
C6_ReturnedErrorIsErrored ==
    [][HookRan =>
        \A i \in Keys :
          GetItem(fstates, i) = "transferring" =>
            \A k \in 1..Len(files[i].chunks) :
              ChunkFuture(i, k) = "reterr" =>
                GetItem(files'[i].cstates, files[i].chunks[k].name) = "errored"]_vars

\* none of the chunks is running and at least one is errored or cancelled
ChunksFailed(cstates) ==
    /\ contains_none(cstates, {"running"})
    /\ ~contains_none(cstates, {"errored", "cancelled"})

\* C7: a transferring file moves to errored exactly when none of its
\* chunks is running and at least one of them is errored or cancelled.
C7_FileErroredIffChunkFailed ==
    [][\A i \in Keys :
         /\ (GetItem(fstates, i) = "transferring" /\ GetItem(fstates', i) = "errored")
              => ChunksFailed(files'[i].cstates)
         /\ (HookRan /\ GetItem(fstates, i) = "transferring"
                     /\ ChunksFailed(files'[i].cstates))
              => GetItem(fstates', i) = "errored"]_vars

\* C8: a zero-length file that went through run ends in state finished.
C8_EmptyFileFinishes ==
    RunCompleted =>
      \A i \in Keys : files[i].nbytes = 0 => GetItem(fstates, i) = "finished"

\* C9: as long as nobody interrupts it, monitor does not return while a
\* file is pending, transferring or merging unless the timeout has
\* elapsed, and a monitor without timeout over files that were all
\* started returns in the end, every file then being finished, cancelled
\* or errored.
C9_MonitorBlocksAndReturns ==
    /\ [](pc = "done" =>
           \/ \A i \in Keys :
                GetItem(fstates, i) \notin {"pending", "transferring", "merging"}
           \/ timeout > 0 /\ elapsed)
    /\ (pc = "wait" /\ timeout = 0
                    /\ \A i \in Keys : GetItem(fstates, i) # "pending")
         ~> /\ pc = "done"
            /\ \A i \in Keys :
                 GetItem(fstates, i) \in {"finished", "cancelled", "errored"}

C9_Witness ==
    /\ RunCompleted
    /\ \E i \in Keys :
         /\ GetItem(fstates, i) = "finished"
         /\ MergesOf(i) # <<>>

\* the work items the resumed run handed to its pool for a chunk
ResubmittedFor(i, k) ==
    {t \in 1..Len(futures) : /\ futures[t].fn = "transfer"
                             /\ futures[t].file = i
                             /\ futures[t].name = files[i].chunks[k].name}

\* C11: when run was called on a client loaded from the checkpoint, the
\* chunks handed to the pool are exactly those whose saved state is not
\* finished: a finished chunk is not transferred again, every other chunk
\* is.
C11_ResumeSkipsFinishedChunks ==
    pc = "AttributeError" =>
      \A i \in Keys : \A k \in 1..Len(files[i].chunks) :
        /\ ChunkState(i, k) = "finished" => ResubmittedFor(i, k) = {}
        /\ ChunkState(i, k) # "finished" => ResubmittedFor(i, k) # {}

\* the checkpoint entry that holds the client's states after a step
EntryAfter ==
    LET st == [files |-> files', fstates |-> fstates']
    IN  IF contains_all(fstates', "finished") THEN <<>> ELSE <<Snapshot(st)>>

\* C12: with a persist path, a step in which the completion hook changes
\* a chunk or file state leaves a checkpoint that holds the client's
\* states as they are after the step: no entry when all files are
\* finished, the entry with the current states otherwise (so after an
\* interrupted run the entry is there).
C12_CheckpointFollowsHook ==
    [][(persist_path /\ (wait \/ shutdown_return))
         => saved' = EntryAfter]_vars

\* C13: once the saves of two clients with different names are through,
\* the checkpoint file is readable and holds the entry of every client
\* that saved itself unfinished, however the saves overlapped.
C13_ConcurrentSavesKeepEntries ==
    (\A c \in ClientNames : savers[c].pc = "idle" /\ savers[c].saves > 0)
      => /\ disk.ok
         /\ \A c \in ClientNames : savers[c].unfinished => c \in load(disk)

\* a StateManager holds every object under the state last set for it and
\* under no other
Recorded(m) ==
    \A obj \in DOMAIN m.objects : \A s \in DOMAIN m.states :
      obj \in m.states[s] <=> m.objects[obj] = s

C10_ShutdownJoinsAndClassifies ==
    /\ pc \in {"cancel", "join", "shut"} => shutdown_event
    /\ pool = "shutdown" => shutdown_event
    /\ pc = "shut" =>
         /\ Running = {} /\ Queued = {}
         /\ \A i \in Keys :
              /\ \A k \in 1..Len(files[i].chunks) :
                   ChunkFuture(i, k) = "early" => ChunkState(i, k) = "finished"
              /\ (/\ Len(files[i].chunks) > 0
                  /\ \A k \in 1..Len(files[i].chunks) : ChunkFuture(i, k) = "early")
                   => GetItem(fstates, i) = "finished"

C10_Witness ==
    /\ pc = "shut"
    /\ \E i \in Keys :
         /\ Len(files[i].chunks) > 1
         /\ \A k \in 1..Len(files[i].chunks) : ChunkFuture(i, k) = "early"
         /\ GetItem(fstates, i) = "finished"

\* ------------------------------------------------------------------ C15
\* the keyword arguments that the operation table does not admit for op:
\* some required parameter is missing, or some parameter is not allowed
Invalid(op, keys) ==
    \/ ~(ends[op].required \subseteq keys)
    \/ ~(keys \subseteq allowed(op))

\* C15: call(op, path, **params) raises a validation error, and sends no
\* request, whenever op is not in the operation table, a required
\* parameter of op is missing, or a parameter outside op's allowed set is
\* given: the step of call() that tests op, and the step that tests the
\* parameters, leave the thread outside call() with a ValueError and with
\* nothing on the wire.
C15_InvalidCallsRaiseWithoutRequest ==
    [][\A t \in Callers :
         /\ \A op \in Ops \ DOMAIN ends :
              call(t, op) =>
                /\ threads'[t].pc = "idle"
                /\ threads'[t].result = "ValueError"
                /\ threads'[t].sent = 0
         /\ \A keys \in SUBSET Params :
              (validate(t, keys) /\ Invalid(threads[t].op, keys)) =>
                /\ threads'[t].pc = "idle"
                /\ threads'[t].result = "ValueError"
                /\ threads'[t].sent = 0]_vars

\* ------------------------------------------------------------------ C19
\* C19: the response of a call with status 403 raises PermissionError,
\* with status 404 FileNotFoundError, and with any other status of 400 and
\* above the generic DatalakeRESTException, unless its JSON body carries a
\* RemoteException whose exception is BadOffsetException, which raises
\* DatalakeBadOffsetException.
C19_StatusDecidesError ==
    [][\A t \in Callers : \A status \in Statuses : \A body \in Bodies :
         (respond(t, status, body) /\ status >= 400) =>
           /\ status = 403 => threads'[t].result = "PermissionError"
           /\ status = 404 => threads'[t].result = "FileNotFoundError"
           /\ status \notin {403, 404} =>
                threads'[t].result =
                  IF body.json /\ body.exception = "BadOffsetException"
                  THEN "DatalakeBadOffsetException"
                  ELSE "DatalakeRESTException"]_vars

\* both threads are back from call(), one with the BadOffset error and the
\* other with the generic one
C19_Witness ==
    /\ threads["t1"].pc = "idle" /\ threads["t2"].pc = "idle"
    /\ threads["t1"].result = "DatalakeBadOffsetException"
    /\ threads["t2"].result = "DatalakeRESTException"

\* ------------------------------------------------------------------ C20
\* C20: no request is sent with an Authorization header older than the one
\* the token signs at that moment: the header of every request that goes
\* out was formatted from the token the credential holds.
C20_NoRequestWithOlderHeader ==
    [][\A t \in Callers : send(t) => threads'[t].sent >= rest.token]_vars

\* ------------------------------------------------------------------ C16
\* the failures that the claim calls retryable: a transport exception, or
\* a response with status 401, 408, 429 or 5xx other than 501 and 505
RetryableFailure(last_exception, response) ==
    \/ last_exception
    \/ response \in {401, 408, 429}
    \/ (500 <= response /\ response < 600 /\ response \notin {501, 505})

\* C16 (as stated): an attempt is retried if and only if it raised a
\* transport exception or returned 401, 408, 429 or a 5xx other than 501
\* and 505.
C16_RetriedIffRetryable ==
    [][decide =>
         (retry'.granted <=>
            RetryableFailure(retry.last_exception, retry.response))]_vars

\* C16 (amended): while the policy has retries left (retry_count is below
\* max_retries) an attempt is retried if and only if it raised a transport
\* exception or returned 104, 401, 408, 429 or a 5xx other than 501 and
\* 505; once retry_count has reached max_retries no attempt is retried.
C16_RetriedIffRetryableOr104WhileRetriesRemain ==
    [][decide =>
         (retry'.granted <=>
            /\ retry.retry_count < policy.max_retries
            /\ \/ RetryableFailure(retry.last_exception, retry.response)
               \/ retry.response = 104)]_vars

\* a response with status 104 has been granted its retry, in the second
\* attempt of a call
C16_Witness ==
    /\ retry.pc = "loop"
    /\ retry.granted
    /\ ~retry.last_exception
    /\ retry.response = 104
    /\ retry.retry_count = 1

RECURSIVE Power(_, _)
Power(b, n) == IF n = 0 THEN 1 ELSE b * Power(b, n - 1)

\* C18: within every call the sleep taken after failed attempt i is
\* base_interval * factor^i, whatever the calls made earlier with the same
\* policy did.
C18_ScheduleRestartsEachCall ==
    [][(decide /\ retry'.granted) =>
         retry'.slept =
           retry.base * Power(policy.exponential_factor, retry.retry_count)]_vars

\* ------------------------------------------------------- the write path

\* the attempt is answered, and the answer is BadOffsetException
BadOffsetAnswer(outcome) ==
    LET got == Attempt(outcome, adl, handle.request)
    IN  /\ ~got.last_exception
        /\ StatusError(got.status, got.body) = "DatalakeBadOffsetException"

\* C21: an APPEND that is answered with BadOffsetException on its second or
\* a later attempt counts as sent, and flush() goes on as after any piece;
\* answered so on its first attempt, the exception reaches the caller.
C21_BadOffsetOnRetryIsSuccess ==
    [][\A outcome \in PutOutcomes :
         (put_attempt(outcome) /\ BadOffsetAnswer(outcome)) =>
            IF handle.retry_count > 0
            THEN handle' = AfterPiece(handle)
            ELSE handle'.raised = "DatalakeBadOffsetException"]_vars

\* the piece being sent is in the remote file at its offset: an earlier
\* attempt of it was applied
Landed ==
    /\ handle.request.op = "APPEND"
    /\ handle.request.offset >= 0
    /\ handle.request.offset + Len(handle.request.data) <= Len(adl.content)
    /\ SubSeq(adl.content, handle.request.offset + 1,
              handle.request.offset + Len(handle.request.data))
         = handle.request.data

\* C22: when an APPEND was applied, its response lost, and its retry
\* answered with BadOffsetException, the file object moves on past the
\* piece, and the remote file holds what it held at open followed by every
\* byte sent so far, once each and in order.
C22_ExactlyOnceAppend ==
    [][\A outcome \in PutOutcomes :
         (/\ put_attempt(outcome)
          /\ BadOffsetAnswer(outcome)
          /\ handle.retry_count > 0
          /\ Landed) =>
            /\ handle'.raised = ""
            /\ handle'.acked = handle.acked + Len(handle.request.data)
            /\ adl'.content =
                 handle.initial \o SubSeq(handle.accepted, 1, handle'.acked)]_vars

\* C23: between the operations of a file object open for writing, loc is
\* the number of bytes accepted by write() plus the length the file had
\* when opened for append, and the buffer is exactly the accepted bytes
\* that were not sent yet: bytes sent + buffer length = bytes accepted.
C23_BufferIsUnsentTail ==
    (handle.pc = "idle" /\ ~handle.closed) =>
        /\ handle.loc = Len(handle.initial) + Len(handle.accepted)
        /\ handle.buffer =
             SubSeq(handle.accepted, handle.acked + 1, Len(handle.accepted))
        /\ handle.acked + Len(handle.buffer) = Len(handle.accepted)

\* the step is the normal return of write() on a file object without
\* delimiter
WriteReturns ==
    /\ ~handle.delimiter
    /\ handle'.pc = "idle" /\ handle'.raised = ""
    /\ \/ handle.pc # "idle" /\ handle.op = "write"
       \/ /\ handle.pc = "idle" /\ ~handle.closed
          /\ \E n \in 0..MaxData : write(n, {})

PieceSent == handle.pc # "send" /\ handle'.pc = "send"

\* C25: until a piece of it has been sent, what a file object sends is a
\* CREATE, unless it was opened for append on a file that exists; every
\* later piece is an APPEND whose offset is the number of bytes sent before
\* it, counted from the start of the remote file; so there is one CREATE
\* at most, and none after an APPEND.
C25_CreateThenAppendsWithOffset ==
    [][PieceSent =>
         IF handle.creates = 0 /\ handle.appends = 0 /\ ~handle.appending
         THEN handle'.request.op = "CREATE"
         ELSE /\ handle'.request.op = "APPEND"
              /\ handle'.request.offset = Len(handle.initial) + handle.acked]_vars

\* C26: a file object that creates its file and is closed without a byte
\* written has sent exactly one CREATE, with an empty body, and no APPEND:
\* the remote file exists with length zero.
C26_EmptyFileIsCreatedOnce ==
    (handle.pc = "idle" /\ handle.closed /\ ~handle.appending
        /\ handle.accepted = <<>>) =>
        /\ handle.creates = 1
        /\ handle.appends = 0
        /\ adl.exists
        /\ adl.content = <<>>

\* closed without a byte written, where a file with content existed before
C26_Witness ==
    /\ handle.pc = "idle" /\ handle.closed /\ handle.mode = "wb"
    /\ handle.accepted = <<>>
    /\ adl.issued > 0
    /\ adl.content = <<>>

\* C27: close() is flush(syncFlag=CLOSE, force=True): whatever the buffer
\* holds at its end is sent, the last piece with syncFlag CLOSE; then the
\* cache of the file system loses the entries that describe the path, and
\* the file object is closed.  close() of a closed file object does and
\* sends nothing.
C27_CloseFlushesInvalidatesOnce ==
    [][/\ (close /\ ~handle.closed /\ handle'.pc # "idle") =>
             handle'.syncFlag = "CLOSE" /\ handle'.force
       /\ (flush_loop /\ handle.op = "close") => handle'.pc = "send"
       /\ (PieceSent /\ handle'.op = "close" /\ handle'.branch # "block") =>
             /\ handle'.request.syncFlag = "CLOSE"
             /\ handle'.request.data = handle'.buffer
       /\ (~handle.closed /\ handle'.closed) =>
             /\ handle.op = "close" \/ close
             /\ handle'.buffer = <<>>
             /\ FilePath \notin DOMAIN dirs'
             /\ Parent(FilePath) \notin DOMAIN dirs'
       /\ (close /\ handle.closed) =>
             /\ handle'.closed /\ handle'.pc = "idle"
             /\ UNCHANGED <<adl, dirs>>]_vars

\* a file object that found its file when it was opened, which put the
\* status of the file into the cache, has sent bytes and is closed
C27_Witness ==
    /\ handle.pc = "idle" /\ handle.closed
    /\ handle.appending
    /\ handle.acked > 0
    /\ Parent(FilePath) \notin DOMAIN dirs

\* C28: once a file object is closed, the remote file holds the bytes that
\* its write() calls accepted, in the order of the calls (after what the
\* file held before, if it was opened for append), whatever the blocksize
\* and however the bytes were split over the calls.
C28_ClosedFileHoldsAcceptedBytes ==
    (handle.pc = "idle" /\ handle.closed) =>
        adl.content = handle.initial \o handle.accepted

\* a file object is closed after three bytes went out in more pieces than
\* one, while one request has failed
C28_Witness ==
    /\ handle.pc = "idle" /\ handle.closed
    /\ Len(handle.accepted) = MaxData
    /\ handle.blocksize < MaxData
    /\ handle.appends > 0
    /\ adl.faults > 0
    /\ adl.content = handle.accepted

\* -------------------------------------------------------- the read path

C30_RecursiveRmInvalidatesBelow ==
    (adl.last.op = "rm" /\ adl.last.recursive /\ adl.last.raised = "") =>
        \A key \in DOMAIN dirs : ~StartsWith(key, adl.last.path \o <<"/">>)

\* a recursive rm has returned; before it the cache had a key inside the
\* removed directory and the key of a sibling whose name only starts with
\* the name of that directory
C30_Witness ==
    /\ adl.last.op = "rm" /\ adl.last.recursive /\ adl.last.raised = ""
    /\ \E key \in adl.last.before :
          StartsWith(key, adl.last.path \o <<"/">>)
    /\ \E key \in adl.last.before :
          /\ StartsWith(key, adl.last.path)
          /\ key # adl.last.path
          /\ ~StartsWith(key, adl.last.path \o <<"/">>)

\* C31: after info(path) with the cache bypassed has returned, the listing
\* cached for the parent of path has an entry for path, and it is the
\* status just fetched, whether or not the listing had an entry of that
\* name before: an info(path) from the cache returns the fresh status.
C31_InfoSplicesFreshStatus ==
    (adl.last.op = "info" /\ adl.last.bypass /\ adl.last.raised = "") =>
        /\ Parent(adl.last.path) \in DOMAIN dirs
        /\ adl.last.path \in DOMAIN dirs[Parent(adl.last.path)]
        /\ dirs[Parent(adl.last.path)][adl.last.path] = adl.last.status

\* C32: exists(path) never raises: it returns True when info(path) returns
\* and False when info(path) fails in any way.
C32_ExistsNeverRaises ==
    adl.last.op = "exists" => adl.last.raised = ""

\* C32, amended: exists(path) returns True when info(path) returns, False
\* when info(path) raises FileNotFoundError, and raises whatever else
\* info(path) raises.
C32_ExistsRaisesUnlessNotFound ==
    [][\A path \in Paths : \A invalidate, denied \in BOOLEAN :
         exists(path, invalidate, denied) =>
            LET got == fs_info(dirs, adl, path, invalidate, denied)
            IN  /\ got.raised = "" =>
                     adl'.last.raised = "" /\ adl'.last.found
                /\ got.raised = "FileNotFoundError" =>
                     adl'.last.raised = "" /\ ~adl'.last.found
                /\ got.raised \notin {"", "FileNotFoundError"} =>
                     adl'.last.raised = got.raised]_vars

\* exists has raised the PermissionError of info
C32_Witness ==
    /\ adl.last.op = "exists"
    /\ adl.last.raised = "PermissionError"

\* C33: after a successful mv(a, b), whatever was cached before, ls and
\* exists without cache bypass no longer report a and do report b.
C33_MoveIsSeenThroughCache ==
    (adl.last.op = "mv" /\ adl.last.raised = "") =>
        LET a == adl.last.path
            b == adl.last.destination
            at_a == fs_ls(dirs, adl, Parent(a), FALSE, FALSE)
            at_b == fs_ls(dirs, adl, Parent(b), FALSE, FALSE)
        IN  /\ fs_exists(dirs, adl, a, FALSE, FALSE) =
                 [cache |-> at_a.cache, raised |-> "", found |-> FALSE]
            /\ fs_exists(dirs, adl, b, FALSE, FALSE).raised = ""
            /\ fs_exists(dirs, adl, b, FALSE, FALSE).found
            /\ at_a.raised = "" => a \notin DOMAIN at_a.listing
            /\ at_b.raised = "" /\ b \in DOMAIN at_b.listing
            /\ fs_ls(dirs, adl, a, FALSE, FALSE).raised = "FileNotFoundError"
            /\ fs_ls(dirs, adl, b, FALSE, FALSE).raised = ""

\* a path has been moved while the listings of both parents were cached
C33_Witness ==
    /\ adl.last.op = "mv"
    /\ adl.last.raised = ""
    /\ Parent(adl.last.path) \in adl.last.before
    /\ Parent(adl.last.destination) \in adl.last.before

\* the objects that a StateManager knows
Objects(m) == DOMAIN m.objects

\* a StateManager keeps a partition: the buckets hold known objects only,
\* every known object is in the bucket of the state recorded for it and in
\* no other, and its two queries answer what their names say
Partition(m) ==
    /\ \A s \in DOMAIN m.states : m.states[s] \subseteq Objects(m)
    /\ \A obj \in Objects(m) :
         /\ m.objects[obj] \in DOMAIN m.states
         /\ {s \in DOMAIN m.states : obj \in m.states[s]} = {m.objects[obj]}
    /\ \A s \in DOMAIN m.states :
         contains_all(m, s) <=>
             /\ m.states[s] # {}
             /\ \A obj \in Objects(m) : obj \in m.states[s]
    /\ \A some \in SUBSET DOMAIN m.states :
         contains_none(m, some) <=> \A s \in some : m.states[s] = {}

\* C37: a StateManager keeps every known object in exactly one bucket,
\* that of the state last assigned and recorded for it; contains_all(s)
\* holds iff the bucket of s is non-empty and holds every object, and
\* contains_none of some states iff their buckets are all empty.
C37_StateManagerPartition ==
    /\ []Partition(fstates)
    /\ [][\A obj \in 1..MaxObjects : \A state \in FileStates :
            setitem(obj, state) =>
               /\ GetItem(fstates', obj) = state
               /\ \A other \in Objects(fstates) \ {obj} :
                    GetItem(fstates', other) = GetItem(fstates, other)]_vars

\* two objects have been moved through several states into different
\* ones, a third is not known
C37_Witness ==
    /\ Cardinality(Objects(fstates)) = 2
    /\ fstates.states["finished"] # {}
    /\ fstates.states["errored"] # {}
    /\ ~contains_all(fstates, "finished")
    /\ contains_none(fstates, {"pending", "transferring", "merging"})

\* a future that is done, was not cancelled and holds no exception
Completed == {"ok", "early", "reterr"}

\* C38: a file is finished only if all of its chunks are finished and,
\* when a merge was submitted for it, the merge completed without error
\* or cancellation; a file is merging only if all of its chunks are
\* finished.
C38_FinishedOnlyAfterChunksAndMerge ==
    \A i \in Keys :
      /\ GetItem(fstates, i) = "finished" =>
           /\ contains_all(files[i].cstates, "finished")
           /\ \A k \in 1..Len(MergesOf(i)) :
                MergesOf(i)[k].state \in Completed
      /\ GetItem(fstates, i) = "merging" =>
           contains_all(files[i].cstates, "finished")

\* a file of two chunks is finished after its merge, another file is
\* errored
C38_Witness ==
    \E i, j \in Keys :
      /\ GetItem(fstates, i) = "finished"
      /\ Len(files[i].chunks) > 1
      /\ MergesOf(i) # <<>>
      /\ GetItem(fstates, j) = "errored"

\* the states in which a file stays
Terminal == {"finished", "cancelled", "errored"}

\* the moves of a file: pending -> transferring -> (merging ->) terminal
Forward(from, to) ==
    \/ to = from
    \/ from = "pending" /\ to = "transferring"
    \/ from = "transferring" /\ to \in {"merging"} \cup Terminal
    \/ from = "merging" /\ to \in Terminal

\* C39: within one run (a resume in a new process starts another) the
\* state of a file only moves forward, pending -> transferring ->
\* (merging ->) finished, cancelled or errored; no completion hook, cancel
\* or shutdown changes a terminal state, and a finished chunk never
\* returns to running.
C39_FileStatesMoveForward ==
    [][~resume =>
         \A i \in Keys :
           /\ i \in DOMAIN files'
           /\ Forward(GetItem(fstates, i), GetItem(fstates', i))
           /\ \A k \in 1..Len(files[i].chunks) :
                LET name == files[i].chunks[k].name
                IN  GetItem(files[i].cstates, name) = "finished" =>
                      /\ name \in Objects(files'[i].cstates)
                      /\ GetItem(files'[i].cstates, name) = "finished"]_vars

\* monitor was interrupted while a file was merging: _cancel cancelled the
\* merge, and the hook of shutdown ran over that file, over its finished
\* chunks and over a file that was errored before
C39_Witness ==
    /\ pc = "done" /\ caller = "monitor"
    /\ \E i, j \in Keys :
         /\ GetItem(fstates, i) = "errored"
         /\ GetItem(fstates, j) = "cancelled"
         /\ \E k \in 1..Len(MergesOf(j)) : MergesOf(j)[k].state = "cancelled"

\* the paths of the tree that the call was given: the path itself and
\* every file and directory below it
AllPaths == 0..Len(acl.tree)

\* C34: the latch is zero only when every directory that was discovered
\* has been listed; the sub-processes leave their loop only when the flag
\* is set, which is when the queue is drained; and the call returns for
\* every finite tree.
C34_WalkerTerminates ==
    /\ [](acl.pc \notin {"idle", "walk", "is_zero"} =>
            acl.submitted = {} /\ acl.listed = {})
    /\ [](\A p \in DOMAIN acl.process_list :
            (acl.process_list[p].pc \in {"shutdown", "exited"}
             /\ acl.method_name # "") =>
               acl.finish_queue_processing_flag /\ acl.file_path_queue = <<>>)
    /\ (acl.pc = "walk") ~> (acl.pc = "returned")

\* C35: when a recursive ACL call has returned without error, the ACL
\* call has been made for the path itself and for every file and
\* directory below it, and for no other path.
C35_AclAppliedToWholeTree ==
    acl.pc = "returned" => acl.applied = AllPaths

\* C36: when a sub-process has put an exception on the exception queue,
\* the monitor terminates and joins all sub-processes and the exception
\* is raised on the calling thread.
C36_ExceptionReraisedOnCaller ==
    (acl.exception = "processor") ~> (Alive = {} /\ acl.pc = "raised")

\* C40: file_path_queue.join() returns only when the ACL call of every
\* path of every list taken from the queue has been executed: no list is
\* acknowledged while calls for it are pending in a function_thread_pool.
C40_JoinWaitsForAclCalls ==
    [][queue_join =>
         \A p \in DOMAIN acl.process_list : acl.process_list[p].pool = {}]_vars

====
